---- MODULE Spec2Model ----
(***************************************************************************)
(* A model of the Loom metamodel adapter of bayeslite                      *)
(* (src/src/metamodels/loom_metamodel.py): the six bayesdb_loom_* tables   *)
(* of every database connection, the adapter's per-connection server       *)
(* cache, and the project directories of the loom store on disk.           *)
(***************************************************************************)
EXTENDS Integers, Sequences, FiniteSets, TLC

(***************************************************************************)
(* Bounds of the model.                                                    *)
(***************************************************************************)
\* Model numbers range over 0..MaxModels-1.
MaxModels == 2
\* Inference runs (loom.tasks.infer calls) in one history.
MaxRuns == 2
\* Rows of the host table of every population.
NumRows == 2

(***************************************************************************)
(* The host database (bayeslite.core), an external collaborator: two       *)
(* connections, the generators registered in each, their names, the        *)
(* variables of their populations and the rows of their tables.  The       *)
(* host's catalogue is not the adapter's to change: its functions answer   *)
(* for a generator id whether or not the adapter holds rows for it.        *)
(***************************************************************************)
Bdbs == {"b1", "b2"}

Gens == {1, 2}

\* The (connection, generator id) pairs a host may hold.
GenKeys == {<<"b1", 1>>, <<"b1", 2>>, <<"b2", 1>>}

\* The sets of generators the hosts of a history come to hold: two generators
\* of one database, or one generator in each of two databases.
HostGenerators ==
    {{<<"b1", 1>>, <<"b1", 2>>}, {<<"b1", 1>>, <<"b2", 1>>}}

\* core.bayesdb_generator_name: both databases name their generator 1 alike.
bayesdb_generator_name(bdb, generator_id) ==
    IF generator_id = 1 THEN "t_loom" ELSE "u_loom"

\* core.bayesdb_variable_numbers, in the host's order.
bayesdb_variable_numbers == <<0, 1>>

Colnos == {bayesdb_variable_numbers[i] : i \in DOMAIN bayesdb_variable_numbers}

\* core.bayesdb_variable_stattype.
bayesdb_variable_stattype(colno) ==
    IF colno = 0 THEN "numerical" ELSE "categorical"

Rowids == 1..NumRows

\* core.bayesdb_generator_fresh_row_id: the row after the last one.
bayesdb_generator_fresh_row_id == NumRows + 1

\* SQL NULL / Python None as a cell value.
NULL == "NULL"

\* core.bayesdb_generator_row_values: the stored value of every column of a
\* row, as text; even rows have no value for column 0.
bayesdb_generator_row_values(rowid) ==
    [colno \in Colnos |->
        IF colno = 0
        THEN (IF rowid % 2 = 1 THEN "5.0" ELSE NULL)
        ELSE (IF rowid % 2 = 1 THEN "x" ELSE "y")]

(***************************************************************************)
(* The adapter's configuration (LoomMetamodel.__init__).                   *)
(***************************************************************************)
loom_prefix == "pfx"

loom_store_path == "loomstore"

(***************************************************************************)
(* The inference engine (loom), an external collaborator.  What it writes  *)
(* is drawn from small sets.                                               *)
(***************************************************************************)
\* The column order of ingest/encoding.json.gz: a sequence of column numbers,
\* the position of a column (from 0) being its rank.
EncodingOrders == {<<1, 0>>}

\* The symbols the engine assigns to the values of a categorical column.
EncodingSymbols(colno) ==
    IF bayesdb_variable_stattype(colno) = "categorical"
    THEN {<<"x", 0>>, <<"y", 1>>}
    ELSE {}

\* A model artifact (samples/sample.N/model.pb.gz with assign.pbs.gz): the
\* kinds, each the set of ranks (featureids) it holds, and for every engine
\* row id (from 0) the group id of the row in every kind.
OneKind ==
    [kinds |-> <<{0, 1}>>,
     assign |-> [r \in 0..(NumRows - 1) |-> <<r % 2>>]]

TwoKinds ==
    [kinds |-> <<{1}, {0}>>,
     assign |-> [r \in 0..(NumRows - 1) |-> <<0, r % 2>>]]

CrossCats == {OneKind, TwoKinds}

Modelnos == 0..(MaxModels - 1)

\* What one inference run writes, sample.m for every m below the sample
\* count: models of one kind, or a first model of two kinds followed by
\* models of one kind.
InferOutcomes(sample_count) ==
    {[m \in 0..(sample_count - 1) |-> OneKind],
     [m \in 0..(sample_count - 1) |-> IF m = 0 THEN TwoKinds ELSE OneKind]}

\* The model number whose assign.pbs.gz does not load (is missing or corrupt)
\* during a call, the last one if any; NoFault when every stream loads.
NoFault == -1

Faults == {NoFault, MaxModels - 1}

\* modelnos=None.
None == <<-1>>

\* The explicit modelnos lists: ascending, without repetition, not empty.
ModelnoLists ==
    {ms \in UNION {[1..n -> Modelnos] : n \in 1..MaxModels} :
        \A i \in 1..(Len(ms) - 1) : ms[i] < ms[i + 1]}

ModelnoArgs == ModelnoLists \cup {None}

\* The workload of the hosts.  Generator 1 of b1 is driven through every
\* operation with every argument; the second generator of a history is one
\* the host creates, initializes with MaxModels models and trains as a
\* whole, and neither queries nor drops.
Primary == <<"b1", 1>>

ModelnoArgsOf(k) == IF k = Primary THEN ModelnoArgs ELSE {None}

InitializeListsOf(k) ==
    IF k = Primary THEN ModelnoLists ELSE {[i \in 1..MaxModels |-> i - 1]}

(***************************************************************************)
(* State.                                                                  *)
(***************************************************************************)
VARIABLES
    \* host[k]: where generator k is in its life at the host: "none" (not of
    \* this history), "new" (about to be created), "live" (created) or
    \* "dropped"; the host numbers its generators without reusing an id.
    host,
    \* db[bdb]: the six bayesdb_loom_* tables of the database of bdb.
    db,
    \* cache: self._cache, bdb -> generator id -> key -> server handle.
    cache,
    \* disk: the loom store, project name -> project directory.
    disk,
    \* runs: the inference runs made so far.
    runs,
    \* last: the last call, its arguments and how it ended.
    last,
    \* engine: the cgpm engine of the populate_cgpm_engine call under way: its
    \* members, the work units built and not yet run, and their results.
    engine,
    \* process: what is global to the python process: os.environ['LOOM_STORE'],
    \* loom.store.STORE of sys.modules, and the _Loom contexts entered and not
    \* yet left, innermost last.
    process,
    \* threads: the callers running on one adapter at once, each with its
    \* position in its code and its local variables.
    threads

vars == <<host, db, cache, disk, runs, last, engine, process, threads>>

\* LOOM_SCHEMA_1: the six tables, empty.
LOOM_SCHEMA_1 ==
    [generator |-> {},
     model_info |-> {},
     string_encoding |-> {},
     column_ordering |-> {},
     column_kind_partition |-> {},
     row_kind_partition |-> {}]

\* No handle (Python None where a server is expected).
NoHandle == [path |-> <<>>, run |-> -1]

Keys == {"q_server", "preql_server"}

\* No call yet.
NoCall ==
    [op |-> "none", bdb |-> "b1", gen |-> 0, modelnos |-> None,
     out |-> "ok", at |-> NoFault, handle |-> NoHandle, value |-> <<>>]

\* util.cursor_value on a cursor without rows raises ValueError.
EmptyCursor(cursor) == cursor = {}

cursor_value(cursor) == CHOOSE v \in cursor : TRUE


(***************************************************************************)
(* SQL statements.  A table is the set of its rows; an INSERT that would   *)
(* repeat a primary key raises IntegrityError and inserts nothing.         *)
(***************************************************************************)
generator_pk(r) == <<r.generator_id>>

string_encoding_pk(r) == <<r.generator_id, r.colno, r.integer_form>>

column_ordering_pk(r) == <<r.generator_id, r.colno>>

column_kind_partition_pk(r) == <<r.generator_id, r.modelno, r.colno>>

row_kind_partition_pk(r) == <<r.generator_id, r.modelno, r.rowid, r.kind_id>>

\* The primary key of a row of the table of that name.
primary_key(name, r) ==
    CASE name = "generator" -> generator_pk(r)
      [] name = "string_encoding" -> string_encoding_pk(r)
      [] name = "column_ordering" -> column_ordering_pk(r)
      [] name = "column_kind_partition" -> column_kind_partition_pk(r)
      [] name = "row_kind_partition" -> row_kind_partition_pk(r)

\* Whether the INSERT of the rows into the table d[name] repeats a key.
PkConflict(d, name, rows) ==
    \/ \E r \in rows : \E t \in d[name] :
            primary_key(name, r) = primary_key(name, t)
    \/ \E r1 \in rows : \E r2 \in rows :
            r1 # r2 /\ primary_key(name, r1) = primary_key(name, r2)

(***************************************************************************)
(* The server cache: one dictionary per connection.                        *)
(***************************************************************************)
\* A cache that is not partitioned by connection: one key for all.
_cache_key_shared(bdb) == "b1"

\* The key of self._cache: the connection object itself.
_cache_key(bdb) == bdb

\* The dictionary _retrieve_cache(bdb) returns: c holds, for every connection,
\* the dictionary the call returns (empty until something is cached in it).
_retrieve_cache(c, bdb) == c[_cache_key(bdb)]

\* An empty dictionary.
EmptyDict == <<>>

\* A set that keeps the value a key already has (dict.setdefault).
_set_cache_entry_setdefault(c, bdb, generator_id, key, value) ==
    LET inner == IF generator_id \in DOMAIN _retrieve_cache(c, bdb)
                 THEN _retrieve_cache(c, bdb)
                 ELSE _retrieve_cache(c, bdb) @@ (generator_id :> EmptyDict)
    IN  [c EXCEPT ![_cache_key(bdb)] =
            [inner EXCEPT ![generator_id] = inner[generator_id] @@ (key :> value)]]

_set_cache_entry(c, bdb, generator_id, key, value) ==
    LET inner == IF generator_id \in DOMAIN _retrieve_cache(c, bdb)
                 THEN _retrieve_cache(c, bdb)
                 ELSE _retrieve_cache(c, bdb) @@ (generator_id :> EmptyDict)
    IN  [c EXCEPT ![_cache_key(bdb)] =
            [inner EXCEPT ![generator_id] = (key :> value) @@ inner[generator_id]]]

\* None if the generator id or the key is not cached.
_get_cache_entry(c, bdb, generator_id, key) ==
    LET inner == _retrieve_cache(c, bdb)
    IN  IF generator_id \notin DOMAIN inner THEN NoHandle
        ELSE IF key \notin DOMAIN inner[generator_id] THEN NoHandle
        ELSE inner[generator_id][key]

\* key = "None" wipes the entry of the generator in its entirety.
_del_cache_entry(c, bdb, generator_id, key) ==
    LET inner == _retrieve_cache(c, bdb)
    IN  IF generator_id \in DOMAIN inner
        THEN IF key = "None"
             THEN [c EXCEPT ![_cache_key(bdb)] =
                    [g \in DOMAIN inner \ {generator_id} |-> inner[g]]]
             ELSE IF key \in DOMAIN inner[generator_id]
             THEN [c EXCEPT ![_cache_key(bdb)] =
                    [inner EXCEPT ![generator_id] =
                        [x \in DOMAIN inner[generator_id] \ {key} |->
                            inner[generator_id][x]]]]
             ELSE c
        ELSE c

(***************************************************************************)
(* Lookups, each the cursor (set of values) its SELECT returns.            *)
(***************************************************************************)
_get_name(d, generator_id) ==
    {r.name : r \in {x \in d.generator : x.generator_id = generator_id}}

_get_loom_project_path(d, generator_id) ==
    {r.project_path :
        r \in {x \in d.generator : x.generator_id = generator_id}}

_get_num_models(d, generator_id) ==
    {r.num_models :
        r \in {x \in d.model_info : x.generator_id = generator_id}}

_get_loom_rank(d, generator_id, colno) ==
    {r.rank : r \in {x \in d.column_ordering :
        x.generator_id = generator_id /\ x.colno = colno}}

_get_kind_id(d, generator_id, modelno, colno) ==
    {r.kind_id : r \in {x \in d.column_kind_partition :
        x.generator_id = generator_id /\ x.modelno = modelno
            /\ x.colno = colno}}

_get_partition_id(d, generator_id, modelno, kind_id, rowid) ==
    {r.partition_id : r \in {x \in d.row_kind_partition :
        x.generator_id = generator_id /\ x.modelno = modelno
            /\ x.kind_id = kind_id /\ x.rowid = rowid}}

\* A string without a stored code is given the code 0.
_get_integer_form_default(d, generator_id, colno, string_form) ==
    LET codes == {r.integer_form : r \in {x \in d.string_encoding :
            x.generator_id = generator_id /\ x.colno = colno
                /\ x.string_form = string_form}}
    IN  IF codes = {} THEN {0} ELSE codes

_get_integer_form(d, generator_id, colno, string_form) ==
    {r.integer_form : r \in {x \in d.string_encoding :
        x.generator_id = generator_id /\ x.colno = colno
            /\ x.string_form = string_form}}

(***************************************************************************)
(* The world a call runs in and leaves behind.                             *)
(***************************************************************************)
World == [db |-> db, cache |-> cache, disk |-> disk, runs |-> runs]

_generate_name(bdb, generator_id) ==
    <<loom_prefix, bayesdb_generator_name(bdb, generator_id)>>

project_path_of(name) == <<loom_store_path>> \o name

(***************************************************************************)
(* drop_models and drop_generator.                                         *)
(***************************************************************************)
\* A round that deletes by model number alone, whatever the generator.
drop_models_one_any_generator(d, generator_id, modelno) ==
    [d EXCEPT
        !.column_kind_partition = {r \in @ : r.modelno # modelno},
        !.row_kind_partition = {r \in @ : r.modelno # modelno}]

\* A round that forgets the row partition.
drop_models_one_columns_only(d, generator_id, modelno) ==
    [d EXCEPT
        !.column_kind_partition =
            {r \in @ : ~(r.generator_id = generator_id /\ r.modelno = modelno)}]

\* A round that deletes the column order of the generator as well.
drop_models_one_and_ordering(d, generator_id, modelno) ==
    [d EXCEPT
        !.column_kind_partition =
            {r \in @ : ~(r.generator_id = generator_id /\ r.modelno = modelno)},
        !.row_kind_partition =
            {r \in @ : ~(r.generator_id = generator_id /\ r.modelno = modelno)},
        !.column_ordering = {r \in @ : r.generator_id # generator_id}]

\* One round of the loop over an explicit modelnos list.
drop_models_one(d, generator_id, modelno) ==
    [d EXCEPT
        !.column_kind_partition =
            {r \in @ : ~(r.generator_id = generator_id /\ r.modelno = modelno)},
        !.row_kind_partition =
            {r \in @ : ~(r.generator_id = generator_id /\ r.modelno = modelno)}]

RECURSIVE drop_models_each(_, _, _)
drop_models_each(d, generator_id, modelnos) ==
    IF modelnos = <<>> THEN d
    ELSE drop_models_each(drop_models_one(d, generator_id, Head(modelnos)),
                          generator_id, Tail(modelnos))

drop_models(w, bdb, generator_id, modelnos) ==
    IF modelnos = None
    THEN [w EXCEPT
            !.db[bdb].column_kind_partition =
                {r \in @ : r.generator_id # generator_id},
            !.db[bdb].row_kind_partition =
                {r \in @ : r.generator_id # generator_id},
            !.cache = _del_cache_entry(
                _del_cache_entry(@, bdb, generator_id, "q_server"),
                bdb, generator_id, "preql_server")]
    ELSE [w EXCEPT
            !.db[bdb] = drop_models_each(@, generator_id, modelnos)]

\* A drop that forgets the string encoding.
drop_generator_keeps_encoding(w, bdb, generator_id) ==
    LET w1 == [w EXCEPT
                !.cache = _del_cache_entry(@, bdb, generator_id, "None")]
        w2 == drop_models(w1, bdb, generator_id, None)
    IN  [w2 EXCEPT
            !.db[bdb].generator =
                {r \in @ : r.generator_id # generator_id},
            !.db[bdb].model_info =
                {r \in @ : r.generator_id # generator_id},
            !.db[bdb].column_ordering =
                {r \in @ : r.generator_id # generator_id}]

drop_generator(w, bdb, generator_id) ==
    LET w1 == [w EXCEPT
                !.cache = _del_cache_entry(@, bdb, generator_id, "None")]
        w2 == drop_models(w1, bdb, generator_id, None)
    IN  [w2 EXCEPT
            !.db[bdb].generator =
                {r \in @ : r.generator_id # generator_id},
            !.db[bdb].model_info =
                {r \in @ : r.generator_id # generator_id},
            !.db[bdb].string_encoding =
                {r \in @ : r.generator_id # generator_id},
            !.db[bdb].column_ordering =
                {r \in @ : r.generator_id # generator_id}]

(***************************************************************************)
(* initialize_models.                                                      *)
(***************************************************************************)
\* The INSERT without the DELETE before it.
initialize_models_insert_only(w, bdb, generator_id, modelnos) ==
    [w EXCEPT
        !.db[bdb].model_info =
            @ \cup {[generator_id |-> generator_id,
                     num_models |-> Len(modelnos)]}]

initialize_models(w, bdb, generator_id, modelnos) ==
    [w EXCEPT
        !.db[bdb].model_info =
            {r \in @ : r.generator_id # generator_id}
                \cup {[generator_id |-> generator_id,
                       num_models |-> Len(modelnos)]}]


(***************************************************************************)
(* create_generator.                                                       *)
(***************************************************************************)
NoSamples == [m \in {} |-> OneKind]

\* loom.tasks.ingest: (re)writes the ingest files of the project of that
\* name; sample directories already there are not touched.
ingest(dk, name, enc) ==
    LET path == project_path_of(name)
        old == IF path \in DOMAIN dk THEN dk[path].samples ELSE NoSamples
    IN  (path :> [encoding |-> enc, samples |-> old]) @@ dk

\* Every code stored with one and the same string, not with its own.
string_encoding_rows_one_string(generator_id, encoding) ==
    UNION {{[generator_id |-> generator_id, colno |-> encoding[i],
             string_form |-> "x", integer_form |-> sym[2]] :
                sym \in EncodingSymbols(encoding[i])} :
           i \in DOMAIN encoding}

\* The rows _store_encoding_info inserts, read from ingest/encoding.json.gz.
string_encoding_rows(generator_id, encoding) ==
    UNION {{[generator_id |-> generator_id, colno |-> encoding[i],
             string_form |-> sym[1], integer_form |-> sym[2]] :
                sym \in EncodingSymbols(encoding[i])} :
           i \in DOMAIN encoding}

\* The ranks counted from 1.
column_ordering_rows_from_one(generator_id, encoding) ==
    {[generator_id |-> generator_id, colno |-> encoding[i], rank |-> i] :
        i \in DOMAIN encoding}

column_ordering_rows(generator_id, encoding) ==
    {[generator_id |-> generator_id, colno |-> encoding[i], rank |-> i - 1] :
        i \in DOMAIN encoding}

_store_encoding_info(w, bdb, generator_id) ==
    LET path == cursor_value(_get_loom_project_path(w.db[bdb], generator_id))
        encoding == w.disk[path].encoding
        srows == string_encoding_rows(generator_id, encoding)
        orows == column_ordering_rows(generator_id, encoding)
    IN  IF PkConflict(w.db[bdb], "string_encoding", srows)
        THEN [w |-> w, out |-> "IntegrityError"]
        ELSE IF PkConflict(w.db[bdb], "column_ordering", orows)
        THEN [w |-> [w EXCEPT !.db[bdb].string_encoding = @ \cup srows],
              out |-> "IntegrityError"]
        ELSE [w |-> [w EXCEPT !.db[bdb].string_encoding = @ \cup srows,
                              !.db[bdb].column_ordering = @ \cup orows],
              out |-> "ok"]

create_generator(w, bdb, generator_id, enc) ==
    LET name == _generate_name(bdb, generator_id)
        row == [generator_id |-> generator_id, name |-> name,
                project_path |-> project_path_of(name)]
    IN  IF PkConflict(w.db[bdb], "generator", {row})
        THEN [w |-> w, out |-> "IntegrityError"]
        ELSE LET w1 == [w EXCEPT !.db[bdb].generator = @ \cup {row}]
                 w2 == [w1 EXCEPT !.disk =
                            ingest(@, cursor_value(
                                _get_name(w1.db[bdb], generator_id)), enc)]
             IN  _store_encoding_info(w2, bdb, generator_id)

(***************************************************************************)
(* analyze_models: drop, infer, extract the partitions, load the servers.  *)
(***************************************************************************)
\* range(n) as a sequence.
range(n) == [i \in 1..n |-> i - 1]

\* loom.tasks.infer(name, sample_count): writes sample.0 .. sample.(count-1),
\* samples[m] being what it leaves in sample.m.
infer(w, name, samples) ==
    LET path == project_path_of(name)
    IN  [w EXCEPT !.disk[path].samples = samples @@ @,
                  !.runs = @ + 1]

\* A server of the engine, bound to a project and reading what the project
\* holds when the server is built.
get_server(w, path) == [path |-> path, run |-> w.runs]

_load_inferences(w, bdb, generator_id) ==
    LET d == w.db[bdb]
    IN  IF EmptyCursor(_get_loom_project_path(d, generator_id))
        THEN [w |-> w, out |-> "LookupError"]
        ELSE LET q == get_server(w,
                        cursor_value(_get_loom_project_path(d, generator_id)))
                 c1 == _set_cache_entry(w.cache, bdb, generator_id,
                        "q_server", q)
                 p == get_server(w, project_path_of(
                        cursor_value(_get_name(d, generator_id))))
                 c2 == _set_cache_entry(c1, bdb, generator_id,
                        "preql_server", p)
             IN  [w |-> [w EXCEPT !.cache = c2], out |-> "ok"]

\* Whether samples/sample.<modelno>/model.pb.gz of the project is there.
_get_cross_cat_ok(w, path, modelno) ==
    /\ path \in DOMAIN w.disk
    /\ modelno \in DOMAIN w.disk[path].samples

_get_cross_cat(w, path, modelno) == w.disk[path].samples[modelno]

\* rank -> kind id, the position (from 0) of the kind that holds the rank.
_retrieve_column_partition(cross_cat) ==
    [loom_rank \in UNION {cross_cat.kinds[i] : i \in DOMAIN cross_cat.kinds} |->
        (CHOOSE i \in DOMAIN cross_cat.kinds :
            loom_rank \in cross_cat.kinds[i]) - 1]

\* kind id -> the group ids of the rows, in ascending engine row id.
_retrieve_row_partition(cross_cat) ==
    [k \in 0..(Len(cross_cat.kinds) - 1) |->
        [i \in 1..Cardinality(DOMAIN cross_cat.assign) |->
            cross_cat.assign[i - 1][k + 1]]]

column_kind_partition_rows(d, generator_id, modelno, column_partition) ==
    {[generator_id |-> generator_id, modelno |-> modelno,
      colno |-> bayesdb_variable_numbers[i],
      kind_id |-> column_partition[cursor_value(_get_loom_rank(d,
                    generator_id, bayesdb_variable_numbers[i]))]] :
        i \in DOMAIN bayesdb_variable_numbers}

row_kind_partition_rows(generator_id, modelno, row_partition) ==
    UNION {{[generator_id |-> generator_id, modelno |-> modelno,
             rowid |-> rowid, kind_id |-> kind_id,
             partition_id |-> row_partition[kind_id][rowid]] :
                rowid \in 1..Len(row_partition[kind_id])} :
           kind_id \in DOMAIN row_partition}

\* One round of the loop of _store_kind_partition: the two INSERTs of a model
\* number, each a statement of its own.  A round that raises tells the model
\* number it was at.
_store_kind_partition_one(w, bdb, generator_id, modelno, fault) ==
    LET d == w.db[bdb]
        path == cursor_value(_get_loom_project_path(d, generator_id))
    IN  IF ~_get_cross_cat_ok(w, path, modelno)
        THEN [w |-> w, out |-> "ArtifactError", at |-> modelno]
        ELSE
        LET cross_cat == _get_cross_cat(w, path, modelno)
            crows == column_kind_partition_rows(d, generator_id, modelno,
                        _retrieve_column_partition(cross_cat))
        IN  IF PkConflict(d, "column_kind_partition", crows)
            THEN [w |-> w, out |-> "IntegrityError", at |-> modelno]
            ELSE
            LET w1 == [w EXCEPT !.db[bdb].column_kind_partition = @ \cup crows]
                rrows == row_kind_partition_rows(generator_id, modelno,
                            _retrieve_row_partition(cross_cat))
            IN  IF fault = modelno
                THEN [w |-> w1, out |-> "ArtifactError", at |-> modelno]
                ELSE IF PkConflict(d, "row_kind_partition", rrows)
                THEN [w |-> w1, out |-> "IntegrityError", at |-> modelno]
                ELSE [w |-> [w1 EXCEPT !.db[bdb].row_kind_partition =
                                @ \cup rrows],
                      out |-> "ok"]

RECURSIVE _store_kind_partition_each(_, _, _, _, _)
_store_kind_partition_each(w, bdb, generator_id, modelnos, fault) ==
    IF modelnos = <<>> THEN [w |-> w, out |-> "ok"]
    ELSE LET r == _store_kind_partition_one(w, bdb, generator_id,
                    Head(modelnos), fault)
         IN  IF r.out # "ok" THEN r
             ELSE _store_kind_partition_each(r.w, bdb, generator_id,
                    Tail(modelnos), fault)

_store_kind_partition(w, bdb, generator_id, modelnos, fault) ==
    _store_kind_partition_each(w, bdb, generator_id,
        IF modelnos = None
        THEN range(cursor_value(_get_num_models(w.db[bdb], generator_id)))
        ELSE modelnos,
        fault)

\* The sample count analyze_models asks of the engine; 0 when it raises
\* before the inference run.
analyze_sample_count(w, bdb, generator_id, modelnos) ==
    LET d == drop_models(w, bdb, generator_id, modelnos).db[bdb]
    IN  IF EmptyCursor(_get_name(d, generator_id)) THEN 0
        ELSE IF modelnos # None THEN Len(modelnos)
        ELSE IF EmptyCursor(_get_num_models(d, generator_id)) THEN 0
        ELSE cursor_value(_get_num_models(d, generator_id))

analyze_models(w, bdb, generator_id, modelnos, samples, fault) ==
    LET w1 == drop_models(w, bdb, generator_id, modelnos)
        d == w1.db[bdb]
    IN  IF EmptyCursor(_get_name(d, generator_id))
        THEN [w |-> w1, out |-> "LookupError"]
        ELSE IF modelnos = None /\ EmptyCursor(_get_num_models(d, generator_id))
        THEN [w |-> w1, out |-> "LookupError"]
        ELSE
        LET w2 == infer(w1, cursor_value(_get_name(d, generator_id)), samples)
            r == _store_kind_partition(w2, bdb, generator_id, modelnos, fault)
        IN  IF r.out # "ok" THEN r
            ELSE _load_inferences(r.w, bdb, generator_id)


(***************************************************************************)
(* The query operations.  Each returns the world it leaves, how it ended   *)
(* (out), the server handle it used and the value it returned.             *)
(***************************************************************************)
\* core._STATTYPE_TO_AFFINITY: the two engine-facing affinities.
_STATTYPE_TO_AFFINITY(stattype) ==
    IF stattype \in {"numerical", "cyclic", "counts"} THEN "real" ELSE "text"

\* The model numbers a query iterates over; the empty cursor of
\* _get_num_models raises.
query_modelnos_ok(d, generator_id, modelnos) ==
    modelnos # None \/ ~EmptyCursor(_get_num_models(d, generator_id))

query_modelnos(d, generator_id, modelnos) ==
    IF modelnos = None
    THEN range(cursor_value(_get_num_models(d, generator_id)))
    ELSE modelnos

SeqRange(seq) == {seq[i] : i \in DOMAIN seq}

\* A mean taken over the models of the generator, not over the hit list.
column_dependence_probability_num_models(w, bdb, generator_id, modelnos, colno0, colno1) ==
    LET d == w.db[bdb]
    IN  IF EmptyCursor(_get_num_models(d, generator_id))
        THEN [w |-> w, out |-> "LookupError", handle |-> NoHandle,
              value |-> <<>>]
        ELSE
        LET ms == query_modelnos(d, generator_id, modelnos)
            missing == \E i \in DOMAIN ms :
                \/ EmptyCursor(_get_kind_id(d, generator_id, ms[i], colno0))
                \/ EmptyCursor(_get_kind_id(d, generator_id, ms[i], colno1))
        IN  IF missing
            THEN [w |-> w, out |-> "LookupError", handle |-> NoHandle,
                  value |-> <<>>]
            ELSE [w |-> w, out |-> "value", handle |-> NoHandle,
                  value |-> <<Cardinality({i \in DOMAIN ms :
                        cursor_value(_get_kind_id(d, generator_id, ms[i],
                            colno0))
                        = cursor_value(_get_kind_id(d, generator_id, ms[i],
                            colno1))}),
                      cursor_value(_get_num_models(d, generator_id))>>]

\* A hit decided by <= on the kind ids, not by ==.
column_dependence_probability_le(w, bdb, generator_id, modelnos, colno0, colno1) ==
    LET d == w.db[bdb]
    IN  IF ~query_modelnos_ok(d, generator_id, modelnos)
        THEN [w |-> w, out |-> "LookupError", handle |-> NoHandle,
              value |-> <<>>]
        ELSE
        LET ms == query_modelnos(d, generator_id, modelnos)
            missing == \E i \in DOMAIN ms :
                \/ EmptyCursor(_get_kind_id(d, generator_id, ms[i], colno0))
                \/ EmptyCursor(_get_kind_id(d, generator_id, ms[i], colno1))
        IN  IF missing
            THEN [w |-> w, out |-> "LookupError", handle |-> NoHandle,
                  value |-> <<>>]
            ELSE [w |-> w, out |-> "value", handle |-> NoHandle,
                  value |-> <<Cardinality({i \in DOMAIN ms :
                        cursor_value(_get_kind_id(d, generator_id, ms[i],
                            colno0))
                        <= cursor_value(_get_kind_id(d, generator_id, ms[i],
                            colno1))}),
                      Len(ms)>>]

\* The result is the pair <<sum(hit_list), len(hit_list)>> of the quotient.
column_dependence_probability(w, bdb, generator_id, modelnos, colno0, colno1) ==
    LET d == w.db[bdb]
    IN  IF ~query_modelnos_ok(d, generator_id, modelnos)
        THEN [w |-> w, out |-> "LookupError", handle |-> NoHandle,
              value |-> <<>>]
        ELSE
        LET ms == query_modelnos(d, generator_id, modelnos)
            missing == \E i \in DOMAIN ms :
                \/ EmptyCursor(_get_kind_id(d, generator_id, ms[i], colno0))
                \/ EmptyCursor(_get_kind_id(d, generator_id, ms[i], colno1))
            hit_list == [i \in DOMAIN ms |->
                IF cursor_value(_get_kind_id(d, generator_id, ms[i], colno0))
                    = cursor_value(_get_kind_id(d, generator_id, ms[i], colno1))
                THEN 1 ELSE 0]
        IN  IF missing
            THEN [w |-> w, out |-> "LookupError", handle |-> NoHandle,
                  value |-> <<>>]
            ELSE [w |-> w, out |-> "value", handle |-> NoHandle,
                  value |-> <<Cardinality({i \in DOMAIN ms : hit_list[i] = 1}),
                              Len(ms)>>]

\* The partitions looked up in the first kind, whatever the kind of the
\* context column.
predictive_relevance_first_kind(w, bdb, generator_id, modelnos, rowid_target, rowid_queries, colno) ==
    LET d == w.db[bdb]
    IN  IF ~query_modelnos_ok(d, generator_id, modelnos)
        THEN [w |-> w, out |-> "LookupError", handle |-> NoHandle,
              value |-> <<>>]
        ELSE
        LET ms == query_modelnos(d, generator_id, modelnos)
            kind(m) == _get_kind_id(d, generator_id, m, colno)
            part(m, rowid) == _get_partition_id(d, generator_id, m,
                                0, rowid)
            missing == \E i \in DOMAIN ms :
                \/ EmptyCursor(kind(ms[i]))
                \/ EmptyCursor(part(ms[i], rowid_target))
                \/ \E q \in DOMAIN rowid_queries :
                        EmptyCursor(part(ms[i], rowid_queries[q]))
            hits(q) == Cardinality({i \in DOMAIN ms :
                cursor_value(part(ms[i], rowid_target))
                    = cursor_value(part(ms[i], rowid_queries[q]))})
        IN  IF missing
            THEN [w |-> w, out |-> "LookupError", handle |-> NoHandle,
                  value |-> <<>>]
            ELSE [w |-> w, out |-> "value", handle |-> NoHandle,
                  value |-> [q \in DOMAIN rowid_queries |->
                                <<hits(q), Len(ms)>>]]

\* The result is, per query row and in query order, the pair <<hits, models>>.
predictive_relevance(w, bdb, generator_id, modelnos, rowid_target, rowid_queries, colno) ==
    LET d == w.db[bdb]
    IN  IF ~query_modelnos_ok(d, generator_id, modelnos)
        THEN [w |-> w, out |-> "LookupError", handle |-> NoHandle,
              value |-> <<>>]
        ELSE
        LET ms == query_modelnos(d, generator_id, modelnos)
            kind(m) == _get_kind_id(d, generator_id, m, colno)
            part(m, rowid) == _get_partition_id(d, generator_id, m,
                                cursor_value(kind(m)), rowid)
            missing == \E i \in DOMAIN ms :
                \/ EmptyCursor(kind(ms[i]))
                \/ EmptyCursor(part(ms[i], rowid_target))
                \/ \E q \in DOMAIN rowid_queries :
                        EmptyCursor(part(ms[i], rowid_queries[q]))
            hits(q) == Cardinality({i \in DOMAIN ms :
                cursor_value(part(ms[i], rowid_target))
                    = cursor_value(part(ms[i], rowid_queries[q]))})
        IN  IF missing
            THEN [w |-> w, out |-> "LookupError", handle |-> NoHandle,
                  value |-> <<>>]
            ELSE [w |-> w, out |-> "value", handle |-> NoHandle,
                  value |-> [q \in DOMAIN rowid_queries |->
                                <<hits(q), Len(ms)>>]]

\* The cached prediction server; on a miss the servers are loaded first.
_retrieve_server(w, bdb, generator_id) ==
    LET server == _get_cache_entry(w.cache, bdb, generator_id, "preql_server")
    IN  IF server # NoHandle
        THEN [w |-> w, out |-> "ok", handle |-> server]
        ELSE LET r == _load_inferences(w, bdb, generator_id)
             IN  IF r.out # "ok"
                 THEN [w |-> r.w, out |-> r.out, handle |-> NoHandle]
                 ELSE [w |-> r.w, out |-> "ok",
                       handle |-> _get_cache_entry(r.w.cache, bdb,
                                    generator_id, "preql_server")]

\* The estimate is the engine's; the value records the two column sets.
column_mutual_information(w, bdb, generator_id, colnos0, colnos1) ==
    LET r == _retrieve_server(w, bdb, generator_id)
    IN  IF r.out # "ok"
        THEN [w |-> r.w, out |-> r.out, handle |-> NoHandle, value |-> <<>>]
        ELSE [w |-> r.w, out |-> "value", handle |-> r.handle,
              value |-> <<colnos0, colnos1>>]

\* The non-null entries of an existing row, as (colno, value) pairs.
simulate_row(rowid) ==
    {<<colno, bayesdb_generator_row_values(rowid)[colno]>> :
        colno \in {c \in Colnos :
            bayesdb_generator_row_values(rowid)[c] # NULL}}

\* The server retrieved before the row is compared with the constraints.
simulate_joint_server_first(w, bdb, generator_id, rowid, targets, constraints, num_samples) ==
    LET existing == rowid # bayesdb_generator_fresh_row_id
        row == IF existing THEN simulate_row(rowid) ELSE {}
        conflict == existing /\ \E e \in row : \E c \in constraints :
                        e[1] = c[1]
        all == constraints \cup row
        request == [colno \in SeqRange(targets) \cup {c[1] : c \in all} |->
            IF \E c \in all : c[1] = colno
            THEN (CHOOSE c \in all : c[1] = colno)[2]
            ELSE ""]
        r == _retrieve_server(w, bdb, generator_id)
    IN  IF r.out # "ok"
        THEN [w |-> r.w, out |-> r.out, handle |-> NoHandle,
              value |-> <<>>]
        ELSE IF conflict
        THEN [w |-> r.w, out |-> "ConflictError", handle |-> NoHandle,
              value |-> <<>>]
        ELSE [w |-> r.w, out |-> "value", handle |-> r.handle,
              value |-> <<request, num_samples>>]

\* targets: a sequence of column numbers; constraints: a set of
\* (colno, value) pairs.  The value is the one-row request sent to the engine.
simulate_joint(w, bdb, generator_id, rowid, targets, constraints, num_samples) ==
    LET existing == rowid # bayesdb_generator_fresh_row_id
        row == IF existing THEN simulate_row(rowid) ELSE {}
        conflict == existing /\ \E e \in row : \E c \in constraints :
                        e[1] = c[1]
        all == constraints \cup row
        request == [colno \in SeqRange(targets) \cup {c[1] : c \in all} |->
            IF \E c \in all : c[1] = colno
            THEN (CHOOSE c \in all : c[1] = colno)[2]
            ELSE ""]
    IN  IF conflict
        THEN [w |-> w, out |-> "ConflictError", handle |-> NoHandle,
              value |-> <<>>]
        ELSE
        LET r == _retrieve_server(w, bdb, generator_id)
        IN  IF r.out # "ok"
            THEN [w |-> r.w, out |-> r.out, handle |-> NoHandle,
                  value |-> <<>>]
            ELSE [w |-> r.w, out |-> "value", handle |-> r.handle,
                  value |-> <<request, num_samples>>]

\* server._predict, the engine's part: num_samples rows that repeat the
\* values given in the request and hold a drawn value, as text, in every
\* empty field.
_predict(request, num_samples) ==
    [1..num_samples ->
        {row \in [DOMAIN request -> {"x", "y", "1.0", "5.0"}] :
            \A colno \in DOMAIN request :
                IF request[colno] # "" THEN row[colno] = request[colno]
                ELSE IF _STATTYPE_TO_AFFINITY(bayesdb_variable_stattype(colno))
                            = "real"
                THEN row[colno] = "1.0"
                ELSE row[colno] \in {"x", "y"}}]

\* The values of a returned row taken in ascending column number, not in the
\* order of targets.
parse_output_by_column(targets, output) ==
    LET sorted == [t \in DOMAIN targets |->
            CHOOSE c \in SeqRange(targets) :
                Cardinality({x \in SeqRange(targets) : x < c}) = t - 1]
    IN  [i \in DOMAIN output |->
            [t \in DOMAIN targets |->
                IF _STATTYPE_TO_AFFINITY(bayesdb_variable_stattype(sorted[t]))
                        = "real"
                THEN <<"float", output[i][sorted[t]]>>
                ELSE <<"str", output[i][sorted[t]]>>]]

\* return_list: of every returned row the values of the targets, in the
\* order of targets; float(value) is written <<"float", value>> and a value
\* left as it is <<"str", value>>.
parse_output(targets, output) ==
    [i \in DOMAIN output |->
        [t \in DOMAIN targets |->
            IF _STATTYPE_TO_AFFINITY(bayesdb_variable_stattype(targets[t]))
                    = "real"
            THEN <<"float", output[i][targets[t]]>>
            ELSE <<"str", output[i][targets[t]]>>]]

\* numsamples is <<>> for None (the default) and <<n>> for the number n;
\* "not numsamples" is true of None and of 0.  The value is the request of
\* the simulation, of which the engine's draws are imputed.
effective_numsamples(numsamples) ==
    IF numsamples = <<>> \/ numsamples = <<0>> THEN 2 ELSE numsamples[1]

predict_confidence(w, bdb, generator_id, rowid, colno, numsamples) ==
    LET n == effective_numsamples(numsamples)
    IN  IF ~(n > 0)
        THEN [w |-> w, out |-> "AssertionError", handle |-> NoHandle,
              value |-> <<>>]
        ELSE simulate_joint(w, bdb, generator_id, rowid, <<colno>>, {}, n)

\* The imputation of predict_confidence.  sample is the sequence of the
\* values s[0] the engine drew; a number p/q is the pair <<p, q>>.
_is_categorical(stattype) ==
    stattype \in {"categorical", "nominal", "unboundedcategorical"}

\* Counter(s[0] for s in sample).
Counter(sample) ==
    [v \in SeqRange(sample) |->
        Cardinality({i \in DOMAIN sample : sample[i] = v})]

RECURSIVE sum(_)
sum(seq) == IF seq = <<>> THEN 0 ELSE Head(seq) + sum(Tail(seq))

\* The confidence taken over the number of distinct values drawn.
_impute_categorical_distinct(sample, numsamples) ==
    LET counts == Counter(sample)
        mode_count == CHOOSE n \in {counts[v] : v \in DOMAIN counts} :
                        \A v \in DOMAIN counts : counts[v] <= n
    IN  {<<v, <<mode_count, Cardinality(DOMAIN counts)>>>> :
            v \in {x \in DOMAIN counts : counts[x] = mode_count}}

\* The (pred, conf) pairs the call may return: the first value of the mode
\* count in the iteration order of the Counter, which is any of them.
_impute_categorical(sample, numsamples) ==
    LET counts == Counter(sample)
        mode_count == CHOOSE n \in {counts[v] : v \in DOMAIN counts} :
                        \A v \in DOMAIN counts : counts[v] <= n
    IN  {<<v, <<mode_count, numsamples>>>> :
            v \in {x \in DOMAIN counts : counts[x] = mode_count}}

_impute_numerical(sample) == {<<<<sum(sample), Len(sample)>>, <<0, 1>>>>}

impute(colno, sample, numsamples) ==
    IF _is_categorical(bayesdb_variable_stattype(colno))
    THEN _impute_categorical(sample, effective_numsamples(numsamples))
    ELSE _impute_numerical(sample)

\* The empty cursor of _get_integer_form raises.
_convert_to_proper_stattype_ok(d, generator_id, colno, value) ==
    \/ value = NULL
    \/ _STATTYPE_TO_AFFINITY(bayesdb_variable_stattype(colno)) = "real"
    \/ ~EmptyCursor(_get_integer_form(d, generator_id, colno, value))

\* float(value) of a real column is written <<"float", value>>.
_convert_to_proper_stattype(d, generator_id, colno, value) ==
    IF value = NULL THEN <<"None">>
    ELSE IF _STATTYPE_TO_AFFINITY(bayesdb_variable_stattype(colno)) = "real"
    THEN <<"float", value>>
    ELSE <<"int", cursor_value(_get_integer_form(d, generator_id, colno,
                                value))>>

\* The columns in ascending column number, whatever their ranks.
_get_order_by_colno(d, generator_id) ==
    LET rows == {x \in d.column_ordering : x.generator_id = generator_id}
    IN  [i \in 1..Cardinality(rows) |->
            (CHOOSE x \in rows :
                Cardinality({y \in rows : y.colno < x.colno}) = i - 1).colno]

\* SELECT colno ... ORDER BY rank ASC, as a sequence.
_get_order(d, generator_id) ==
    LET rows == {x \in d.column_ordering : x.generator_id = generator_id}
    IN  [i \in 1..Cardinality(rows) |->
            (CHOOSE x \in rows :
                Cardinality({y \in rows : y.rank < x.rank}) = i - 1).colno]

\* The keys of an OrderedDict that starts with the keys of order and is then
\* assigned at the columns of seq, in turn: a new key goes to the end.
RECURSIVE ordered_keys(_, _)
ordered_keys(order, seq) ==
    IF seq = <<>> THEN order
    ELSE ordered_keys(
            IF Head(seq)[1] \in SeqRange(order) THEN order
            ELSE Append(order, Head(seq)[1]),
            Tail(seq))

\* targets and constraints: sequences of (colno, value) pairs.  The value is
\* the pair of the two vectors scored, and_case and conditional_case, each
\* the values() of its OrderedDict.
logpdf_joint(w, bdb, generator_id, targets, constraints) ==
    LET d == w.db[bdb]
        order == _get_order(d, generator_id)
        both == targets \o constraints
        \* the last assignment to a column wins
        final(seq, colno) ==
            LET is == {i \in DOMAIN seq : seq[i][1] = colno}
            IN  IF is = {} THEN <<"None">>
                ELSE _convert_to_proper_stattype(d, generator_id, colno,
                        seq[CHOOSE i \in is : \A j \in is : j <= i][2])
        keys == ordered_keys(order, both)
        and_case == [i \in DOMAIN keys |-> final(both, keys[i])]
        conditional_case == [i \in DOMAIN keys |-> final(constraints, keys[i])]
        q_server == _get_cache_entry(w.cache, bdb, generator_id, "q_server")
    IN  IF \E i \in DOMAIN both :
            ~_convert_to_proper_stattype_ok(d, generator_id, both[i][1],
                both[i][2])
        THEN [w |-> w, out |-> "LookupError", handle |-> NoHandle,
              value |-> <<>>]
        ELSE IF q_server = NoHandle
        THEN [w |-> w, out |-> "AttributeError", handle |-> NoHandle,
              value |-> <<>>]
        ELSE [w |-> w, out |-> "value", handle |-> q_server,
              value |-> <<and_case, conditional_case>>]

\* str(value) of a stored value: str(None) is the text 'None'.
str(value) == IF value = NULL THEN "None" ELSE value

\* core.bayesdb_population_row_values: the values of the row, one per
\* variable in ascending column number, None where the row has none.
bayesdb_population_row_values(rowid) ==
    [i \in DOMAIN bayesdb_variable_numbers |->
        bayesdb_generator_row_values(rowid)[bayesdb_variable_numbers[i]]]

\* The items of the OrderedDict that starts with None at every column in
\* loom's order and is then assigned str(value) at the column whose number
\* is the position of the value in the row (zip(range(len(row)), row)).  A
\* column stands for its name.
_reorder_row(w, bdb, generator_id, row) ==
    LET order == _get_order(w.db[bdb], generator_id)
        assigned == [i \in DOMAIN row |-> <<i - 1, str(row[i])>>]
        keys == ordered_keys(order, assigned)
        item(colno) ==
            LET is == {i \in DOMAIN assigned : assigned[i][1] = colno}
            IN  IF is = {} THEN NULL
                ELSE assigned[CHOOSE i \in is : \A j \in is : j <= i][2]
    IN  [i \in DOMAIN keys |-> <<keys[i], item(keys[i])>>]

\* The similarity is the engine's; the value records the two reordered rows,
\* of which the engine gets the values.
row_similarity(w, bdb, generator_id, rowid, target_rowid) ==
    LET target_row == _reorder_row(w, bdb, generator_id,
                        bayesdb_population_row_values(target_rowid))
        row == _reorder_row(w, bdb, generator_id,
                        bayesdb_population_row_values(rowid))
        r == _retrieve_server(w, bdb, generator_id)
    IN  IF r.out # "ok"
        THEN [w |-> r.w, out |-> r.out, handle |-> NoHandle, value |-> <<>>]
        ELSE [w |-> r.w, out |-> "value", handle |-> r.handle,
              value |-> <<target_row, row>>]

(***************************************************************************)
(* populate_cgpm_engine: the members (states) of a cgpm engine, an         *)
(* external collaborator, take the partitions of the models.  A member     *)
(* holds views, view id -> the row partition of the view (Zr, one          *)
(* partition id per row), and Zv, column -> the id of the view of the      *)
(* column.                                                                 *)
(***************************************************************************)
max(S) == CHOOSE x \in S : \A y \in S : y <= x

\* state._append_view(view, view_id), the view made of the row partition Zr.
_append_view(state, view_id, Zr) ==
    [state EXCEPT !.views = (view_id :> Zr) @@ @]

\* state._migrate_dim(v_current, v_new, dim, reassign=True): the column moves
\* to the view v_new, and a view left without columns is deleted.
_migrate_dim(state, v_current, v_new, c) ==
    LET moved == [state EXCEPT !.Zv[c] = v_new]
    IN  IF v_current # v_new
            /\ \A x \in DOMAIN moved.Zv : moved.Zv[x] # v_current
        THEN [moved EXCEPT !.views =
                [v \in (DOMAIN moved.views) \ {v_current} |-> moved.views[v]]]
        ELSE moved

\* state._check_partitions(): every column is in one view that the member
\* has, and every view partitions every row.
_check_partitions(state) ==
    /\ \A c \in DOMAIN state.Zv : state.Zv[c] \in DOMAIN state.views
    /\ \A v \in DOMAIN state.views : DOMAIN state.views[v] = 1..NumRows

\* for view_index in range(len(row_partition)): a view of id
\* starting_id + view_index is appended.
RECURSIVE append_views(_, _, _, _)
append_views(state, starting_id, row_partition, view_index) ==
    IF view_index \notin DOMAIN row_partition THEN state
    ELSE append_views(
            _append_view(state, starting_id + view_index,
                row_partition[view_index]),
            starting_id, row_partition, view_index + 1)

\* for c in state.outputs: the column migrates to the view of its kind.
RECURSIVE migrate_dims(_, _, _, _)
migrate_dims(state, starting_id, column_partition, outputs) ==
    IF outputs = <<>> THEN state
    ELSE LET c == Head(outputs)
         IN  migrate_dims(
                _migrate_dim(state, state.Zv[c],
                    column_partition[c] + starting_id, c),
                starting_id, column_partition, Tail(outputs))

\* The starting id is the member's greatest view id, not the one after it.
_update_state_from_max(w, bdb, generator_id, state, modelno) ==
    LET d == w.db[bdb]
        path == _get_loom_project_path(d, generator_id)
    IN  IF EmptyCursor(path) THEN [out |-> "LookupError", state |-> state]
        ELSE IF ~_get_cross_cat_ok(w, cursor_value(path), modelno)
        THEN [out |-> "ArtifactError", state |-> state]
        ELSE IF \E colno \in Colnos :
                    EmptyCursor(_get_loom_rank(d, generator_id, colno))
        THEN [out |-> "LookupError", state |-> state]
        ELSE
        LET cross_cat == _get_cross_cat(w, cursor_value(path), modelno)
            by_rank == _retrieve_column_partition(cross_cat)
            column_partition == [colno \in Colnos |->
                by_rank[cursor_value(_get_loom_rank(d, generator_id, colno))]]
            row_partition == _retrieve_row_partition(cross_cat)
            starting_id == max(DOMAIN state.views)
            viewed == append_views(state, starting_id, row_partition, 0)
            migrated == migrate_dims(viewed, starting_id, column_partition,
                            bayesdb_variable_numbers)
        IN  IF ~_check_partitions(migrated)
            THEN [out |-> "AssertionError", state |-> migrated]
            ELSE [out |-> "ok", state |-> migrated]

\* The member after the call, and how the call ended.
_update_state(w, bdb, generator_id, state, modelno) ==
    LET d == w.db[bdb]
        path == _get_loom_project_path(d, generator_id)
    IN  IF EmptyCursor(path) THEN [out |-> "LookupError", state |-> state]
        ELSE IF ~_get_cross_cat_ok(w, cursor_value(path), modelno)
        THEN [out |-> "ArtifactError", state |-> state]
        ELSE IF \E colno \in Colnos :
                    EmptyCursor(_get_loom_rank(d, generator_id, colno))
        THEN [out |-> "LookupError", state |-> state]
        ELSE
        LET cross_cat == _get_cross_cat(w, cursor_value(path), modelno)
            by_rank == _retrieve_column_partition(cross_cat)
            column_partition == [colno \in Colnos |->
                by_rank[cursor_value(_get_loom_rank(d, generator_id, colno))]]
            row_partition == _retrieve_row_partition(cross_cat)
            starting_id == max(DOMAIN state.views) + 1
            viewed == append_views(state, starting_id, row_partition, 0)
            migrated == migrate_dims(viewed, starting_id, column_partition,
                            bayesdb_variable_numbers)
        IN  IF ~_check_partitions(migrated)
            THEN [out |-> "AssertionError", state |-> migrated]
            ELSE [out |-> "ok", state |-> migrated]

\* Every work unit is given the model number 0.
populate_args_first_model(states) ==
    [i \in DOMAIN states |-> [state |-> states[i], modelno |-> 0]]

\* args: the work unit of the member at position i of engine.states (from 0)
\* has the model number i.
populate_args(states) ==
    [i \in DOMAIN states |-> [state |-> states[i], modelno |-> i - 1]]

\* parallel_map(self._update_state_mp, args): the results in the order of
\* args.
parallel_map(w, bdb, generator_id, args) ==
    [i \in DOMAIN args |->
        _update_state(w, bdb, generator_id, args[i].state, args[i].modelno)]

\* The whole call on the members states: the value is the new engine.states;
\* a work unit that raises ends the call before engine.states is assigned.
\* engine.transition then moves the non-structural parameters, which the
\* members of the model do not hold.
populate_cgpm_engine(w, bdb, generator_id, states) ==
    LET results == parallel_map(w, bdb, generator_id, populate_args(states))
        raised == {i \in DOMAIN results : results[i].out # "ok"}
    IN  IF raised # {}
        THEN [w |-> w, out |-> results[CHOOSE i \in raised :
                                    \A j \in raised : i <= j].out,
              handle |-> NoHandle, value |-> <<>>]
        ELSE [w |-> w, out |-> "value", handle |-> NoHandle,
              value |-> [i \in DOMAIN results |-> results[i].state]]

\* A member as the host builds it: one view, which holds every column.
FreshMember ==
    [views |-> (0 :> [i \in 1..NumRows |-> 0]),
     Zv |-> [c \in Colnos |-> 0]]

\* No call of populate_cgpm_engine under way.
NoEngine ==
    [pc |-> "idle", serial |-> FALSE, states |-> <<>>, args |-> <<>>,
     pending |-> {}, results |-> <<>>]

(***************************************************************************)
(* _Loom, the context manager around every call into loom: loom reads its  *)
(* store path from the environment when loom.store is imported or reloaded. *)
(***************************************************************************)
\* os.environ without the key LOOM_STORE; sys.modules without loom.store.
Unset == "<unset>"
NotLoaded == "<not loaded>"

\* The store path loom.store computes without LOOM_STORE in the environment.
DefaultStore == "defaultstore"

\* loom.store on import and on reload: STORE from the environment.
loom_store_STORE(environ) ==
    IF environ = Unset THEN DefaultStore ELSE environ

\* previous_os_env: loom.store.STORE if the module is imported, else
\* LOOM_STORE if the environment has it, else None.
previous_os_env(p) ==
    IF p.STORE # NotLoaded THEN p.STORE
    ELSE IF p.LOOM_STORE # Unset THEN p.LOOM_STORE
    ELSE NULL

\* What __exit__ does with the saved value: nothing when it is None.
restore(environ, previous) ==
    IF previous # NULL THEN previous ELSE environ

\* __enter__: save, set LOOM_STORE, import or reload loom.store; the frame
\* also keeps LOOM_STORE as it was on entry.
__enter__(p, path) ==
    [LOOM_STORE |-> path,
     STORE |-> loom_store_STORE(path),
     contexts |-> Append(p.contexts,
                    [loom_store_path |-> path,
                     previous_os_env |-> previous_os_env(p),
                     entered |-> p.LOOM_STORE])]

\* __exit__ of the innermost context.
__exit__(p) ==
    LET self == p.contexts[Len(p.contexts)]
    IN  [LOOM_STORE |-> restore(p.LOOM_STORE, self.previous_os_env),
         STORE |-> p.STORE,
         contexts |-> SubSeq(p.contexts, 1, Len(p.contexts) - 1)]

\* No context entered, loom not imported, LOOM_STORE not set.
NoProcess == [LOOM_STORE |-> Unset, STORE |-> NotLoaded, contexts |-> <<>>]

\* No caller under way.
NoThreads == <<>>

(***************************************************************************)
(* The state machine: one action per public operation of the adapter.      *)
(***************************************************************************)
Init ==
    /\ \E hs \in HostGenerators :
            host = [k \in GenKeys |-> IF k \in hs THEN "new" ELSE "none"]
    /\ db = [bdb \in Bdbs |-> LOOM_SCHEMA_1]
    /\ cache = [bdb \in Bdbs |-> EmptyDict]
    /\ disk = <<>>
    /\ runs = 0
    /\ last = NoCall
    /\ engine = NoEngine
    /\ process = NoProcess
    /\ threads = NoThreads

\* The call leaves the world r.w and is recorded in last, with the model
\* number at which the extraction of the partitions raised, if it did.
Returns(r, op, bdb, generator_id, modelnos, handle, value) ==
    /\ db' = r.w.db
    /\ cache' = r.w.cache
    /\ disk' = r.w.disk
    /\ runs' = r.w.runs
    /\ last' = [op |-> op, bdb |-> bdb, gen |-> generator_id,
                modelnos |-> modelnos, out |-> r.out,
                at |-> IF "at" \in DOMAIN r THEN r.at ELSE NoFault,
                handle |-> handle, value |-> value]
    /\ UNCHANGED <<engine, process, threads>>

Mutation(r, op, bdb, generator_id, modelnos) ==
    Returns(r, op, bdb, generator_id, modelnos, NoHandle, <<>>)

\* A query leaves in last how it ended and the server handle it used.
Query(r, op, bdb, generator_id) ==
    /\ Returns(r, op, bdb, generator_id, None, r.handle, <<>>)
    /\ UNCHANGED host

\* The host calls create_generator for a generator it has just registered, and
\* the other mutating operations for a generator it has created and not
\* dropped.
CreateGenerator ==
    \E k \in GenKeys : \E enc \in EncodingOrders :
        /\ host[k] = "new"
        /\ Mutation(create_generator(World, k[1], k[2], enc),
                "create_generator", k[1], k[2], None)
        /\ host' = [host EXCEPT ![k] = "live"]

InitializeModels ==
    \E k \in GenKeys : \E modelnos \in InitializeListsOf(k) :
        /\ host[k] = "live"
        /\ Mutation([w |-> initialize_models(World, k[1], k[2], modelnos),
                     out |-> "ok"],
                "initialize_models", k[1], k[2], modelnos)
        /\ UNCHANGED host

DropModels ==
    \E k \in {Primary} : \E modelnos \in ModelnoArgs :
        /\ host[k] = "live"
        /\ Mutation([w |-> drop_models(World, k[1], k[2], modelnos),
                     out |-> "ok"],
                "drop_models", k[1], k[2], modelnos)
        /\ UNCHANGED host

DropGenerator ==
    \E k \in {Primary} :
        /\ host[k] = "live"
        /\ Mutation([w |-> drop_generator(World, k[1], k[2]), out |-> "ok"],
                "drop_generator", k[1], k[2], None)
        /\ host' = [host EXCEPT ![k] = "dropped"]

AnalyzeModels ==
    /\ runs < MaxRuns
    /\ \E k \in GenKeys : \E modelnos \in ModelnoArgsOf(k) :
        \E samples \in InferOutcomes(analyze_sample_count(World, k[1], k[2],
                                modelnos)) : \E fault \in Faults :
            LET r == analyze_models(World, k[1], k[2], modelnos, samples,
                        fault)
            IN  /\ host[k] = "live"
                /\ Mutation(r, "analyze_models", k[1], k[2], modelnos)
                /\ UNCHANGED host

\* The queries are tried on the primary generator: created, dropped or not
\* yet created.
Known == {Primary}

ColumnDependenceProbability ==
    \E k \in Known : \E modelnos \in ModelnoArgsOf(k) :
        Query(column_dependence_probability(World, k[1], k[2], modelnos,
                0, 1),
            "column_dependence_probability", k[1], k[2])

PredictiveRelevance ==
    \E k \in Known : \E modelnos \in ModelnoArgsOf(k) :
        Query(predictive_relevance(World, k[1], k[2], modelnos,
                1, <<1, 2>>, 0),
            "predictive_relevance", k[1], k[2])

ColumnMutualInformation ==
    \E k \in Known :
        Query(column_mutual_information(World, k[1], k[2], <<0>>, <<1>>),
            "column_mutual_information", k[1], k[2])

RowSimilarity ==
    \E k \in Known :
        Query(row_similarity(World, k[1], k[2], 1, 2),
            "row_similarity", k[1], k[2])

\* Row 1 holds a value for column 1, the fresh row holds none.
SimulateJoint ==
    \E k \in Known : \E rowid \in {1, bayesdb_generator_fresh_row_id} :
        Query(simulate_joint(World, k[1], k[2], rowid, <<0>>,
                {<<1, "x">>}, 1),
            "simulate_joint", k[1], k[2])

PredictConfidence ==
    \E k \in Known : \E numsamples \in {<<-1>>, <<>>} :
        Query(predict_confidence(World, k[1], k[2], 1, 1, numsamples),
            "predict_confidence", k[1], k[2])

\* The target lists tried: a value of a real column, and a value of a
\* categorical column with and without a stored code.
LogpdfTargets == {<<<<0, "5.0">>>>, <<<<1, "x">>>>, <<<<1, "z">>>>}

LogpdfJoint ==
    \E k \in Known : \E targets \in LogpdfTargets :
        Query(logpdf_joint(World, k[1], k[2], targets, <<>>),
            "logpdf_joint", k[1], k[2])

\* The host hands a newly built engine of MaxModels members to the adapter
\* and keeps what comes back.
PopulateCgpmEngine ==
    \E k \in Known :
        LET r == populate_cgpm_engine(World, k[1], k[2],
                    [i \in 1..MaxModels |-> FreshMember])
        IN  /\ Returns(r, "populate_cgpm_engine", k[1], k[2], None,
                    NoHandle, r.value)
            /\ UNCHANGED host

Next ==
    \/ CreateGenerator
    \/ InitializeModels
    \/ DropModels
    \/ DropGenerator
    \/ AnalyzeModels
    \/ ColumnDependenceProbability
    \/ PredictiveRelevance
    \/ ColumnMutualInformation
    \/ RowSimilarity
    \/ SimulateJoint
    \/ PredictConfidence
    \/ LogpdfJoint
    \/ PopulateCgpmEngine

Spec == Init /\ [][Next]_vars

(***************************************************************************)
(* A second specification, of the query operations alone: it starts from   *)
(* a generator that was created and initialized, and possibly trained as   *)
(* a whole, and every call is recorded with its arguments and its result.  *)
(***************************************************************************)
\* The models of the generator the queries are tried on.
QueryModels == 3

QueryModelnos == 0..(QueryModels - 1)

EmptyWorld ==
    [db |-> [bdb \in Bdbs |-> LOOM_SCHEMA_1],
     cache |-> [bdb \in Bdbs |-> EmptyDict],
     disk |-> <<>>,
     runs |-> 0]

CreatedWorld ==
    initialize_models(
        create_generator(EmptyWorld, Primary[1], Primary[2],
            CHOOSE enc \in EncodingOrders : TRUE).w,
        Primary[1], Primary[2], range(QueryModels))

TrainedWorld(samples) ==
    analyze_models(CreatedWorld, Primary[1], Primary[2], None, samples,
        NoFault).w

QueryWorlds ==
    {CreatedWorld}
        \cup {TrainedWorld(samples) : samples \in [QueryModelnos -> CrossCats]}

InitQuery ==
    /\ \E w \in QueryWorlds :
        /\ db = w.db
        /\ cache = w.cache
        /\ disk = w.disk
        /\ runs = w.runs
    /\ host = [k \in GenKeys |-> IF k = Primary THEN "live" ELSE "none"]
    /\ last = NoCall
    /\ engine = NoEngine
    /\ process = NoProcess
    /\ threads = NoThreads

\* last.value is the pair of the arguments and the result of the call.
Answered(r, op, modelnos, args, result) ==
    /\ Returns(r, op, Primary[1], Primary[2], modelnos, r.handle,
            <<args, result>>)
    /\ UNCHANGED host

\* The modelnos of the queries: None and the ascending lists.
QueryModelnoArgs ==
    {None} \cup
    {ms \in UNION {[1..n -> QueryModelnos] : n \in 1..QueryModels} :
        \A i \in 1..(Len(ms) - 1) : ms[i] < ms[i + 1]}

QueryDependence ==
    \E modelnos \in QueryModelnoArgs : \E colno0 \in Colnos :
        \E colno1 \in Colnos :
            LET r == column_dependence_probability(World, Primary[1],
                        Primary[2], modelnos, colno0, colno1)
            IN  Answered(r, "column_dependence_probability", modelnos,
                    [colno0 |-> colno0, colno1 |-> colno1], r.value)

RowidQueries == {<<1, 2>>, <<2, 1>>}

\* The modelnos of the relevance queries: None, one model, all but one.
RelevanceModelnoArgs ==
    {None, <<1>>, [i \in 1..(QueryModels - 1) |-> IF i = 1 THEN 0 ELSE i]}

QueryRelevance ==
    \E modelnos \in RelevanceModelnoArgs : \E rowid_target \in Rowids :
        \E rowid_queries \in RowidQueries : \E colno \in Colnos :
            LET r == predictive_relevance(World, Primary[1], Primary[2],
                        modelnos, rowid_target, rowid_queries, colno)
            IN  Answered(r, "predictive_relevance", modelnos,
                    [rowid_target |-> rowid_target,
                     rowid_queries |-> rowid_queries, colno |-> colno],
                    r.value)

\* The rows tried: the existing rows and the fresh one.
QueryRowids == Rowids \cup {bayesdb_generator_fresh_row_id}

\* The constraints tried: none, or one on a column.
QueryConstraints == {{}, {<<1, "x">>}, {<<0, "5.0">>}}

\* The targets tried with the number of samples asked for.
QueryTargets == {<<<<0>>, 2>>, <<<<1>>, 1>>, <<<<1, 0>>, 2>>}

\* The result is the request, the number of samples, the list returned and
\* the rows the engine sent.
QuerySimulate ==
    \E rowid \in QueryRowids : \E tn \in QueryTargets :
        \E constraints \in QueryConstraints :
            LET r == simulate_joint(World, Primary[1], Primary[2], rowid,
                        tn[1], constraints, tn[2])
                args == [rowid |-> rowid, targets |-> tn[1],
                         constraints |-> constraints]
            IN  IF r.out # "value"
                THEN Answered(r, "simulate_joint", None, args, r.value)
                ELSE \E output \in _predict(r.value[1], r.value[2]) :
                        Answered(r, "simulate_joint", None, args,
                            <<r.value[1], r.value[2],
                              parse_output(tn[1], output), output>>)

\* The numsamples tried: None, 0, a negative number and 2.
QueryNumsamples == {<<>>, <<0>>, <<-1>>, <<2>>}

\* What the engine may draw for a column, n times.
Draws(colno, n) ==
    [1..n -> IF _is_categorical(bayesdb_variable_stattype(colno))
             THEN {"x", "y"} ELSE {1, 3}]

QueryPredict ==
    \E rowid \in {1} : \E colno \in Colnos :
        \E numsamples \in QueryNumsamples :
            LET r == predict_confidence(World, Primary[1], Primary[2], rowid,
                        colno, numsamples)
                args == [rowid |-> rowid, colno |-> colno,
                         numsamples |-> numsamples]
            IN  IF r.out # "value"
                THEN Answered(r, "predict_confidence", None, args, <<>>)
                ELSE \E sample \in Draws(colno, r.value[2]) :
                        \E result \in impute(colno, sample, numsamples) :
                            Answered(r, "predict_confidence", None, args,
                                [request |-> r.value, sample |-> sample,
                                 result |-> result])

\* The (colno, value) lists tried as targets and as constraints.
QueryPairs ==
    {<<>>, <<<<0, "5.0">>>>, <<<<1, "y">>>>, <<<<1, "z">>>>, <<<<1, NULL>>>>,
     <<<<0, "5.0">>, <<1, "y">>>>}

QueryLogpdf ==
    \E targets \in QueryPairs : \E constraints \in QueryPairs :
        LET r == logpdf_joint(World, Primary[1], Primary[2], targets,
                    constraints)
        IN  Answered(r, "logpdf_joint", None,
                [targets |-> targets, constraints |-> constraints], r.value)

\* row_similarity of every pair of stored rows.
QuerySimilarity ==
    \E rowid \in Rowids : \E target_rowid \in Rowids :
        LET r == row_similarity(World, Primary[1], Primary[2], rowid,
                    target_rowid)
        IN  Answered(r, "row_similarity", None,
                [rowid |-> rowid, target_rowid |-> target_rowid], r.value)

NextQuery ==
    \/ QuerySimilarity
    \/ QueryDependence
    \/ QueryRelevance
    \/ QuerySimulate
    \/ QueryPredict
    \/ QueryLogpdf

QuerySpec == InitQuery /\ [][NextQuery]_vars

(***************************************************************************)
(* A third specification: one populate_cgpm_engine call on the primary     *)
(* generator, its work units run one by one in any order (parallel_map in  *)
(* worker processes, each on a copy of its member) or in the order of the  *)
(* members (parallel_map in the calling process, each on the member        *)
(* itself).                                                                *)
(***************************************************************************)
\* A member that has been through structure inference: two views, of ids 0
\* and 2, with a column each.
SplitMember ==
    [views |-> (0 :> [i \in 1..NumRows |-> 0])
                @@ (2 :> [i \in 1..NumRows |-> (i - 1) % 2]),
     Zv |-> [c \in Colnos |-> IF c = 0 THEN 0 ELSE 2]]

EngineMembers == {FreshMember, SplitMember}

\* The engines handed in: as many members as the generator has models.
Engines == [1..QueryModels -> EngineMembers]

InitEngine ==
    /\ \E w \in QueryWorlds :
        /\ db = w.db
        /\ cache = w.cache
        /\ disk = w.disk
        /\ runs = w.runs
    /\ host = [k \in GenKeys |-> IF k = Primary THEN "live" ELSE "none"]
    /\ last = NoCall
    /\ \E states \in Engines : engine = [NoEngine EXCEPT !.states = states]
    /\ process = NoProcess
    /\ threads = NoThreads

\* How the call under way ended.
Populated(out, value) ==
    last' = [NoCall EXCEPT !.op = "populate_cgpm_engine", !.bdb = Primary[1],
                !.gen = Primary[2], !.out = out, !.value = value]

\* The call builds args, one work unit per member.
PopulateStart ==
    /\ engine.pc = "idle"
    /\ \E serial \in BOOLEAN :
        engine' = [engine EXCEPT !.pc = "running", !.serial = serial,
                        !.args = populate_args(engine.states),
                        !.pending = DOMAIN engine.states]
    /\ UNCHANGED <<host, db, cache, disk, runs, last, process, threads>>

\* One work unit runs _update_state on its member.
UpdateState ==
    /\ engine.pc = "running"
    /\ \E i \in engine.pending :
        /\ engine.serial => \A j \in engine.pending : i <= j
        /\ LET r == _update_state(World, Primary[1], Primary[2],
                        engine.args[i].state, engine.args[i].modelno)
           IN  IF r.out = "ok"
               THEN /\ engine' = [engine EXCEPT
                            !.pending = @ \ {i},
                            !.results = (i :> r.state) @@ @,
                            !.states = IF engine.serial
                                       THEN [@ EXCEPT ![i] = r.state]
                                       ELSE @]
                    /\ UNCHANGED last
               ELSE /\ engine' = [engine EXCEPT !.pc = "raised",
                                        !.pending = {}]
                    /\ Populated(r.out, <<>>)
    /\ UNCHANGED <<host, db, cache, disk, runs, process, threads>>

\* engine.states = the results, in the order of args.
PopulateFinish ==
    /\ engine.pc = "running"
    /\ engine.pending = {}
    /\ engine' = [engine EXCEPT !.pc = "done",
                    !.states = [i \in DOMAIN engine.args |->
                                    engine.results[i]]]
    /\ Populated("value", <<>>)
    /\ UNCHANGED <<host, db, cache, disk, runs, process, threads>>

NextEngine ==
    \/ PopulateStart
    \/ UpdateState
    \/ PopulateFinish

EngineSpec == InitEngine /\ [][NextEngine]_vars

(***************************************************************************)
(* The fourth specification: the _Loom contexts of one python process,     *)
(* entered by adapters with different store paths and left innermost       *)
(* first, as with-statements do.                                           *)
(***************************************************************************)
MaxDepth == 3

\* The store paths of the two adapters.
StorePaths == {loom_store_path, "otherstore"}

\* The process before the first context: LOOM_STORE unset or set by the
\* host, loom.store not imported or imported by the host under that
\* environment.
InitLoom ==
    /\ host = [k \in GenKeys |-> "none"]
    /\ db = [bdb \in Bdbs |-> LOOM_SCHEMA_1]
    /\ cache = [bdb \in Bdbs |-> EmptyDict]
    /\ disk = <<>>
    /\ runs = 0
    /\ last = NoCall
    /\ engine = NoEngine
    /\ threads = NoThreads
    /\ \E environ \in {Unset, "hoststore"} \cup StorePaths :
       \E STORE \in {NotLoaded, loom_store_STORE(environ)} :
            process = [NoProcess EXCEPT !.LOOM_STORE = environ,
                                        !.STORE = STORE]

\* with _Loom(path) as loom: the entry.
Enter ==
    /\ Len(process.contexts) < MaxDepth
    /\ \E path \in StorePaths : process' = __enter__(process, path)
    /\ UNCHANGED <<host, db, cache, disk, runs, last, engine, threads>>

\* The end of the innermost with-body.
Exit ==
    /\ process.contexts # <<>>
    /\ process' = __exit__(process)
    /\ UNCHANGED <<host, db, cache, disk, runs, last, engine, threads>>

NextLoom ==
    \/ Enter
    \/ Exit

LoomSpec == InitLoom /\ [][NextLoom]_vars

(***************************************************************************)
(* The fifth specification: two callers of _retrieve_server on the         *)
(* primary generator and a caller of drop_models(None) or drop_generator,  *)
(* on one adapter and one connection at once.  A step is one cache         *)
(* operation with the lookup that computes its argument, or one group of   *)
(* DELETE statements; the steps of the callers interleave freely.          *)
(***************************************************************************)
Callers == {"caller1", "caller2"}
Dropper == "dropper"

\* Where each call starts.
Entry(op) ==
    [pc |-> CASE op = "_retrieve_server" -> "get"
              [] op = "drop_generator" -> "wipe"
              [] op = "drop_models" -> "delete_partitions",
     op |-> op, server |-> NoHandle]

\* The adapter serves a created or trained generator, its cache as the calls
\* before left it or empty (a process that has just opened the database).
InitRace ==
    /\ \E w \in QueryWorlds :
        /\ db = w.db
        /\ cache \in {w.cache, [bdb \in Bdbs |-> EmptyDict]}
        /\ disk = w.disk
        /\ runs = w.runs
    /\ host = [k \in GenKeys |-> IF k = Primary THEN "live" ELSE "none"]
    /\ last = NoCall
    /\ engine = NoEngine
    /\ process = NoProcess
    /\ \E op \in {"drop_models", "drop_generator"} :
        threads = [t \in Callers \cup {Dropper} |->
                    IF t = Dropper THEN Entry(op)
                    ELSE Entry("_retrieve_server")]

\* A step of thread t to pc, with the cache, the tables and t's server as
\* given.
Step(t, pc, c, d, server) ==
    /\ threads' = [threads EXCEPT ![t].pc = pc, ![t].server = server]
    /\ cache' = c
    /\ db' = [db EXCEPT ![Primary[1]] = d]
    /\ UNCHANGED <<host, disk, runs, last, engine, process>>

\* server = self._get_cache_entry(bdb, generator_id, 'preql_server')
Get ==
    \E t \in Callers :
        /\ threads[t].pc = "get"
        /\ LET server == _get_cache_entry(cache, Primary[1], Primary[2],
                            "preql_server")
           IN  Step(t, IF server = NoHandle THEN "load_q_server"
                       ELSE "returned",
                    cache, db[Primary[1]], server)

\* _load_inferences, the first _set_cache_entry.
LoadQServer ==
    \E t \in Callers :
        /\ threads[t].pc = "load_q_server"
        /\ LET path == _get_loom_project_path(db[Primary[1]], Primary[2])
           IN  IF EmptyCursor(path)
               THEN Step(t, "raised", cache, db[Primary[1]], NoHandle)
               ELSE Step(t, "load_preql_server",
                        _set_cache_entry(cache, Primary[1], Primary[2],
                            "q_server", get_server(World, cursor_value(path))),
                        db[Primary[1]], NoHandle)

\* _load_inferences, the second _set_cache_entry.
LoadPreqlServer ==
    \E t \in Callers :
        /\ threads[t].pc = "load_preql_server"
        /\ LET name == _get_name(db[Primary[1]], Primary[2])
           IN  IF EmptyCursor(name)
               THEN Step(t, "raised", cache, db[Primary[1]], NoHandle)
               ELSE Step(t, "get_again",
                        _set_cache_entry(cache, Primary[1], Primary[2],
                            "preql_server",
                            get_server(World,
                                project_path_of(cursor_value(name)))),
                        db[Primary[1]], NoHandle)

\* The second _get_cache_entry and the return.
GetAgain ==
    \E t \in Callers :
        /\ threads[t].pc = "get_again"
        /\ Step(t, "returned", cache, db[Primary[1]],
                _get_cache_entry(cache, Primary[1], Primary[2],
                    "preql_server"))

\* drop_generator: self._del_cache_entry(bdb, generator_id, None)
Wipe ==
    /\ threads[Dropper].pc = "wipe"
    /\ Step(Dropper, "delete_partitions",
            _del_cache_entry(cache, Primary[1], Primary[2], "None"),
            db[Primary[1]], NoHandle)

\* drop_models(None): the two DELETEs.
DeletePartitions ==
    /\ threads[Dropper].pc = "delete_partitions"
    /\ Step(Dropper, "del_q_server", cache,
            [db[Primary[1]] EXCEPT
                !.column_kind_partition =
                    {r \in @ : r.generator_id # Primary[2]},
                !.row_kind_partition =
                    {r \in @ : r.generator_id # Primary[2]}],
            NoHandle)

\* drop_models(None): self._del_cache_entry(bdb, generator_id, 'q_server')
DelQServer ==
    /\ threads[Dropper].pc = "del_q_server"
    /\ Step(Dropper, "del_preql_server",
            _del_cache_entry(cache, Primary[1], Primary[2], "q_server"),
            db[Primary[1]], NoHandle)

\* drop_models(None): the second _del_cache_entry and the return, into
\* drop_generator if that is the call.
DelPreqlServer ==
    /\ threads[Dropper].pc = "del_preql_server"
    /\ Step(Dropper,
            IF threads[Dropper].op = "drop_generator"
            THEN "delete_generator" ELSE "returned",
            _del_cache_entry(cache, Primary[1], Primary[2], "preql_server"),
            db[Primary[1]], NoHandle)

\* drop_generator: the four DELETEs after drop_models.
DeleteGenerator ==
    /\ threads[Dropper].pc = "delete_generator"
    /\ Step(Dropper, "returned", cache,
            [db[Primary[1]] EXCEPT
                !.generator = {r \in @ : r.generator_id # Primary[2]},
                !.model_info = {r \in @ : r.generator_id # Primary[2]},
                !.string_encoding = {r \in @ : r.generator_id # Primary[2]},
                !.column_ordering = {r \in @ : r.generator_id # Primary[2]}],
            NoHandle)

NextRace ==
    \/ Get
    \/ LoadQServer
    \/ LoadPreqlServer
    \/ GetAgain
    \/ Wipe
    \/ DeletePartitions
    \/ DelQServer
    \/ DelPreqlServer
    \/ DeleteGenerator

RaceSpec == InitRace /\ [][NextRace]_vars

(***************************************************************************)
(* The properties checked.                                                 *)
(***************************************************************************)
Tables == DOMAIN LOOM_SCHEMA_1

\* The rows of a table of d that are keyed by the generator id.
RowsOf(d, table, generator_id) ==
    {r \in d[table] : r.generator_id = generator_id}

QueryOps ==
    {"column_dependence_probability", "column_mutual_information",
     "row_similarity", "predictive_relevance", "predict_confidence",
     "simulate_joint", "logpdf_joint"}

\* The queries that need a server handle, and the cache key of the handle.
HandleOps ==
    {"column_mutual_information", "row_similarity", "simulate_joint",
     "predict_confidence", "logpdf_joint"}

NeededKey(op) == IF op = "logpdf_joint" THEN "q_server" ELSE "preql_server"

\* How a call ends when it rejects its arguments or misses a row it looks
\* up.
LookupErrors == {"LookupError"}

ArgumentErrors == {"ConflictError", "AssertionError"}

PrimaryPath == project_path_of(_generate_name(Primary[1], Primary[2]))

\* The primary generator is the only one of b1 that has been created, so
\* every inference run so far in its project was its own.
PrimaryAlone ==
    /\ host[<<"b1", 2>>] = "new"
    /\ host[<<"b2", 1>>] = "none"

\* C1: once drop_generator(bdb, g) has returned, no row keyed by g is left in
\* any of the six tables of bdb, and the cache of bdb holds no entry for g.
C1_theorem ==
    \A k \in GenKeys :
        host[k] = "dropped" =>
            /\ \A table \in Tables : RowsOf(db[k[1]], table, k[2]) = {}
            /\ k[2] \notin DOMAIN _retrieve_cache(cache, k[1])

\* A generator that was trained (samples in its project) has been dropped.
C1_witness ==
    /\ last.op = "drop_generator"
    /\ PrimaryAlone
    /\ PrimaryPath \in DOMAIN disk
    /\ DOMAIN disk[PrimaryPath].samples # {}

\* C2: after drop_generator(bdb, g), every query on g ends in the error of a
\* lookup (or of the validation of its arguments), and none returns a value.
C2_counterexample ==
    (host[Primary] = "dropped" /\ last.op \in QueryOps) =>
        last.out \in LookupErrors \cup ArgumentErrors

\* C3: when drop_models(bdb, g, modelnos) has returned, for None as for an
\* explicit list, the cache of bdb holds neither q_server nor preql_server
\* for g.
C3_counterexample ==
    last.op = "drop_models" =>
        \A key \in Keys :
            _get_cache_entry(cache, last.bdb, last.gen, key) = NoHandle

\* C4: drop_models with an explicit list removes the column and row partition
\* rows of exactly the pairs (g, m), m in the list: every other row of the
\* two tables, every other table and every other database is left as it was.
C4_theorem ==
    [][(last'.op = "drop_models" /\ last'.modelnos # None) =>
        LET bdb == last'.bdb
            hit(r) == /\ r.generator_id = last'.gen
                      /\ r.modelno \in SeqRange(last'.modelnos)
        IN  /\ db'[bdb].column_kind_partition =
                    {r \in db[bdb].column_kind_partition : ~hit(r)}
            /\ db'[bdb].row_kind_partition =
                    {r \in db[bdb].row_kind_partition : ~hit(r)}
            /\ \A table \in Tables \ {"column_kind_partition",
                                      "row_kind_partition"} :
                    db'[bdb][table] = db[bdb][table]
            /\ \A other \in Bdbs \ {bdb} : db'[other] = db[other]
      ]_vars

\* Model 0 of the primary generator has been dropped; its model 1 and the
\* models of generator 2 of the same database keep their rows.
C4_witness ==
    /\ last.op = "drop_models"
    /\ last.modelnos = <<0>>
    /\ \A table \in {"column_kind_partition", "row_kind_partition"} :
        /\ \A r \in RowsOf(db["b1"], table, 1) : r.modelno # 0
        /\ \E r \in RowsOf(db["b1"], table, 1) : r.modelno = 1
        /\ \E r \in RowsOf(db["b1"], table, 2) : r.modelno = 0

\* C5: a call made with one connection never changes what a cache get with
\* another connection returns, for any generator id and key.
C5_theorem ==
    [][\A other \in Bdbs \ {last'.bdb} : \A g \in Gens : \A key \in Keys :
            _get_cache_entry(cache', other, g, key)
                = _get_cache_entry(cache, other, g, key)
      ]_vars

\* Generator 1 of b1 has been dropped while b2 holds handles for its own
\* generator 1.
C5_witness ==
    /\ last.op = "drop_generator"
    /\ last.bdb = "b1"
    /\ 1 \notin DOMAIN _retrieve_cache(cache, "b1")
    /\ \A key \in Keys : _get_cache_entry(cache, "b2", 1, key) # NoHandle
    /\ PrimaryPath \in DOMAIN disk
    /\ DOMAIN disk[PrimaryPath].samples # {}

\* C6: a query that needs a server handle and finds none cached for a
\* generator that exists builds the handle, caches it and uses it (unless it
\* rejects its arguments first).
C6_counterexample ==
    [][(/\ last'.op \in HandleOps
        /\ ~EmptyCursor(_get_name(db[last'.bdb], last'.gen))
        /\ _get_cache_entry(cache, last'.bdb, last'.gen,
                NeededKey(last'.op)) = NoHandle
        /\ last'.out \notin LookupErrors \cup ArgumentErrors)
       => /\ last'.out = "value"
          /\ last'.handle # NoHandle
          /\ last'.handle = _get_cache_entry(cache', last'.bdb, last'.gen,
                                NeededKey(last'.op))
      ]_vars

\* C7: when analyze_models of g has completed, both handles cached for g are
\* handles built after the inference run of that call; a cached handle is
\* only ever replaced by one built after the latest run; and a query that
\* returns a value computed with a handle used the handle cached for g.
C7_theorem ==
    [][/\ (last'.op = "analyze_models" /\ last'.out = "ok") =>
            \A key \in Keys :
                _get_cache_entry(cache', last'.bdb, last'.gen, key).run
                    = runs'
       /\ \A bdb \in Bdbs : \A g \in Gens : \A key \in Keys :
            LET handle == _get_cache_entry(cache', bdb, g, key)
            IN  handle # NoHandle =>
                    \/ handle = _get_cache_entry(cache, bdb, g, key)
                    \/ handle.run = runs'
       /\ (last'.op \in HandleOps /\ last'.out = "value") =>
            last'.handle = _get_cache_entry(cache', last'.bdb, last'.gen,
                                NeededKey(last'.op))
      ]_vars

\* The primary generator was trained MaxRuns times, and a query on it has
\* returned a value computed with a handle of the last run.
C7_witness ==
    /\ PrimaryAlone
    /\ runs = MaxRuns
    /\ last.op \in HandleOps
    /\ last.out = "value"
    /\ last.handle.run = MaxRuns

\* The partition rows of (g, m) in the tables, and the rows the extraction
\* makes of an artifact.
StoredOf(d, generator_id, modelno) ==
    [ckp |-> {r \in d.column_kind_partition :
                r.generator_id = generator_id /\ r.modelno = modelno},
     rkp |-> {r \in d.row_kind_partition :
                r.generator_id = generator_id /\ r.modelno = modelno}]

ExtractionOf(d, generator_id, modelno, cross_cat) ==
    [ckp |-> column_kind_partition_rows(d, generator_id, modelno,
                _retrieve_column_partition(cross_cat)),
     rkp |-> row_kind_partition_rows(generator_id, modelno,
                _retrieve_row_partition(cross_cat))]

\* C8: the extraction (run by analyze_models, after the drop of the requested
\* model numbers) never meets a key conflict, and when it runs again for a
\* model number whose artifact is the one the stored rows were made of, the
\* rows of that model number are afterwards exactly what they were.
C8_theorem ==
    [][last'.op = "analyze_models" =>
        /\ last'.out # "IntegrityError"
        /\ last'.out = "ok" =>
            LET bdb == last'.bdb
                g == last'.gen
                path == cursor_value(_get_loom_project_path(db'[bdb], g))
                ms == query_modelnos(db'[bdb], g, last'.modelnos)
            IN  \A i \in DOMAIN ms :
                    (/\ _get_cross_cat_ok(World, path, ms[i])
                     /\ _get_cross_cat(World, path, ms[i])
                            = disk'[path].samples[ms[i]]
                     /\ StoredOf(db[bdb], g, ms[i])
                            = ExtractionOf(db[bdb], g, ms[i],
                                _get_cross_cat(World, path, ms[i])))
                    => StoredOf(db'[bdb], g, ms[i])
                            = StoredOf(db[bdb], g, ms[i])
      ]_vars

\* The primary generator has completed its second training of model 0, and
\* the stored rows of model 0 are those of the artifact on disk.
C8_witness ==
    /\ PrimaryAlone
    /\ runs = MaxRuns
    /\ last.op = "analyze_models"
    /\ last.out = "ok"
    /\ last.modelnos = <<0>>
    /\ StoredOf(db["b1"], 1, 0)
            = ExtractionOf(db["b1"], 1, 0, disk[PrimaryPath].samples[0])
    /\ StoredOf(db["b1"], 1, 0).rkp # {}

\* C9: when the extraction of a requested model number m raises for its
\* artifact (model file or row-assignment file), no column partition row and
\* no row partition row of (g, m) is in the tables afterwards.
C9_counterexample ==
    (last.op = "analyze_models" /\ last.out = "ArtifactError") =>
        /\ StoredOf(db[last.bdb], last.gen, last.at).ckp = {}
        /\ StoredOf(db[last.bdb], last.gen, last.at).rkp = {}

\* C10: in every state, each (generator, model number) has its complete
\* column partition together with its complete row partition, or neither.
C10_counterexample ==
    \A bdb \in Bdbs : \A g \in Gens : \A m \in Modelnos :
        LET stored == StoredOf(db[bdb], g, m)
        IN  \/ stored.ckp = {} /\ stored.rkp = {}
            \/ /\ {r.colno : r \in stored.ckp} = Colnos
               /\ \A c \in stored.ckp : \A rowid \in Rowids :
                    \E r \in stored.rkp :
                        r.kind_id = c.kind_id /\ r.rowid = rowid

\* Whether the stored column partition of model m puts columns A and B in
\* one kind.
CoKinded(d, generator_id, m, A, B) ==
    \E ra \in d.column_kind_partition : \E rb \in d.column_kind_partition :
        /\ ra.generator_id = generator_id /\ rb.generator_id = generator_id
        /\ ra.modelno = m /\ rb.modelno = m
        /\ ra.colno = A /\ rb.colno = B
        /\ ra.kind_id = rb.kind_id

\* C11: column_dependence_probability returns the number of models of
\* modelnos in which A and B are of one kind, over the number of models of
\* modelnos: a number of [0, 1], 1 when they are co-kinded in every model and
\* 0 when in none.
C11_theorem ==
    (last.op = "column_dependence_probability" /\ last.out = "value") =>
        LET ms == query_modelnos(db[last.bdb], last.gen, last.modelnos)
            args == last.value[1]
            hits == Cardinality({i \in DOMAIN ms :
                        CoKinded(db[last.bdb], last.gen, ms[i],
                            args.colno0, args.colno1)})
        IN  /\ last.value[2] = <<hits, Len(ms)>>
            /\ Len(ms) > 0
            /\ 0 <= hits /\ hits <= Len(ms)
            /\ (\A i \in DOMAIN ms : CoKinded(db[last.bdb], last.gen, ms[i],
                    args.colno0, args.colno1)) <=> hits = Len(ms)
            /\ (\A i \in DOMAIN ms : ~CoKinded(db[last.bdb], last.gen, ms[i],
                    args.colno0, args.colno1)) <=> hits = 0

\* Two columns co-kinded in 2 of the 3 models asked for: the result is 2/3.
C11_witness ==
    /\ last.op = "column_dependence_probability"
    /\ last.out = "value"
    /\ last.modelnos = <<0, 1, 2>>
    /\ last.value[1].colno0 # last.value[1].colno1
    /\ last.value[2] = <<2, 3>>

\* C12: in one state of the store, column_dependence_probability(A, B) and
\* column_dependence_probability(B, A) end alike, for all columns and model
\* sets.
C12_theorem ==
    \A modelnos \in QueryModelnoArgs : \A A \in Colnos : \A B \in Colnos :
        LET ab == column_dependence_probability(World, Primary[1],
                    Primary[2], modelnos, A, B)
            ba == column_dependence_probability(World, Primary[1],
                    Primary[2], modelnos, B, A)
        IN  ab.out = ba.out /\ ab.value = ba.value

\* A query on two different columns, the second before the first, has
\* returned a number strictly between 0 and 1.
C12_witness ==
    /\ last.op = "column_dependence_probability"
    /\ last.out = "value"
    /\ last.value[1].colno0 > last.value[1].colno1
    /\ last.value[2][1] > 0
    /\ last.value[2][1] < last.value[2][2]

\* The model numbers that have partition rows of the generator, and whether
\* each of them has its rows whole (a kind per column, a partition per row).
TrainedModelnos(d, generator_id) ==
    {r.modelno : r \in RowsOf(d, "column_kind_partition", generator_id)}
        \cup {r.modelno : r \in RowsOf(d, "row_kind_partition", generator_id)}

WholeRows(d, generator_id) ==
    \A m \in TrainedModelnos(d, generator_id) :
        /\ \A c \in Colnos :
                ~EmptyCursor(_get_kind_id(d, generator_id, m, c))
        /\ \A c \in Colnos : \A rowid \in Rowids :
                ~EmptyCursor(_get_partition_id(d, generator_id, m,
                    cursor_value(_get_kind_id(d, generator_id, m, c)), rowid))

\* C13: with modelnos = None, column_dependence_probability and
\* predictive_relevance evaluate over exactly the model numbers that have
\* partition rows of the generator, whatever initialize_models,
\* analyze_models and drop_models calls came before.
C13_counterexample ==
    LET d == db[Primary[1]]
        g == Primary[2]
        trained == TrainedModelnos(d, g)
    IN  (/\ ~EmptyCursor(_get_num_models(d, g))
         /\ trained # {}
         /\ WholeRows(d, g)) =>
            /\ \A A \in Colnos : \A B \in Colnos :
                LET r == column_dependence_probability(World, Primary[1], g,
                            None, A, B)
                IN  /\ r.out = "value"
                    /\ r.value[1] * Cardinality(trained)
                        = r.value[2] * Cardinality({m \in trained :
                                            CoKinded(d, g, m, A, B)})
            /\ LET r == predictive_relevance(World, Primary[1], g, None, 1,
                            <<1>>, 0)
               IN  /\ r.out = "value"
                   /\ Len(r.value) = 1
                   /\ r.value[1][1] = r.value[1][2]

\* Whether the stored rows of model m put the two rows in one partition of
\* the kind of the column.
SamePartition(d, generator_id, m, colno, rowid0, rowid1) ==
    \E c \in d.column_kind_partition :
        /\ c.generator_id = generator_id /\ c.modelno = m /\ c.colno = colno
        /\ \E ra \in d.row_kind_partition : \E rb \in d.row_kind_partition :
            /\ ra.generator_id = generator_id /\ rb.generator_id = generator_id
            /\ ra.modelno = m /\ rb.modelno = m
            /\ ra.kind_id = c.kind_id /\ rb.kind_id = c.kind_id
            /\ ra.rowid = rowid0 /\ rb.rowid = rowid1
            /\ ra.partition_id = rb.partition_id

\* C14: predictive_relevance returns one number per query row, in query
\* order: the number of models in which the query row and the target row
\* have one partition id in the kind of the context column, over the number
\* of models; it lies in [0, 1], and is 1 for a query row that is the target.
C14_theorem ==
    (last.op = "predictive_relevance" /\ last.out = "value") =>
        LET d == db[last.bdb]
            ms == query_modelnos(d, last.gen, last.modelnos)
            args == last.value[1]
            result == last.value[2]
            hits(q) == Cardinality({i \in DOMAIN ms :
                SamePartition(d, last.gen, ms[i], args.colno,
                    args.rowid_target, args.rowid_queries[q])})
        IN  /\ DOMAIN result = DOMAIN args.rowid_queries
            /\ \A q \in DOMAIN result :
                /\ result[q] = <<hits(q), Len(ms)>>
                /\ Len(ms) > 0
                /\ 0 <= hits(q) /\ hits(q) <= Len(ms)
                /\ args.rowid_queries[q] = args.rowid_target =>
                        hits(q) = Len(ms)

\* Two query rows, the second of them the target: the first scores strictly
\* between 0 and 1 and the second 1.
C14_witness ==
    /\ last.op = "predictive_relevance"
    /\ last.out = "value"
    /\ Len(last.value[2]) = 2
    /\ last.value[1].rowid_queries[2] = last.value[1].rowid_target
    /\ last.value[2][1][1] > 0
    /\ last.value[2][1][1] < last.value[2][1][2]
    /\ last.value[2][2][1] = last.value[2][2][2]

\* C15: simulate_joint on an existing row, with an explicit constraint on a
\* column of which the row stores a value, raises the conflict error when the
\* stored value differs from the constraint's and does not raise it when the
\* two are equal.
C15_counterexample ==
    (last.op = "simulate_joint"
        /\ last.value[1].rowid # bayesdb_generator_fresh_row_id) =>
        \A c \in last.value[1].constraints :
            LET stored == bayesdb_generator_row_values(
                            last.value[1].rowid)[c[1]]
            IN  stored # NULL =>
                    (last.out = "ConflictError" <=> stored # c[2])

\* C16: simulate_joint never answers a request in which a target column is
\* also constrained, explicitly or by a value the existing row stores: every
\* target of an answered request has the empty value in the row sent to the
\* engine.
C16_counterexample ==
    (last.op = "simulate_joint" /\ last.out = "value") =>
        LET args == last.value[1]
            request == last.value[2][1]
        IN  \A i \in DOMAIN args.targets :
                /\ request[args.targets[i]] = ""
                /\ \A c \in args.constraints : c[1] # args.targets[i]
                /\ args.rowid # bayesdb_generator_fresh_row_id =>
                    bayesdb_generator_row_values(args.rowid)[args.targets[i]]
                        = NULL

\* C17: a simulate_joint call that ends with the conflict error has built or
\* fetched no server and sent nothing to the engine: the cache, the tables,
\* the store and the engine's runs are as before the call, and the call holds
\* no handle and no request.
C17_theorem ==
    [][(last'.op = "simulate_joint" /\ last'.out = "ConflictError") =>
            /\ cache' = cache
            /\ db' = db
            /\ disk' = disk
            /\ runs' = runs
            /\ last'.handle = NoHandle
            /\ last'.value[2] = <<>>]_vars

\* A conflict raised while the cache holds no server of the generator, so
\* that retrieving one would have built it.
C17_witness ==
    /\ last.op = "simulate_joint"
    /\ last.out = "ConflictError"
    /\ _get_cache_entry(cache, Primary[1], Primary[2], "preql_server")
            = NoHandle
    /\ ~EmptyCursor(_get_loom_project_path(db[Primary[1]], Primary[2]))

\* How often v was drawn.
Drawn(sample, v) == Cardinality({i \in DOMAIN sample : sample[i] = v})

\* C18: predict_confidence asks for numsamples joint simulations of the column
\* for the row; of the draws of a categorical, nominal or unboundedcategorical
\* column it returns a most frequent value with its count over numsamples, of
\* the draws of any other column their arithmetic mean with confidence 0.
C18_theorem ==
    (last.op = "predict_confidence" /\ last.out = "value") =>
        LET args == last.value[1]
            request == last.value[2].request
            sample == last.value[2].sample
            pred == last.value[2].result[1]
            conf == last.value[2].result[2]
            n == Len(sample)
        IN  /\ n = request[2]
            /\ n > 0
            /\ args.colno \in DOMAIN request[1]
            /\ IF bayesdb_variable_stattype(args.colno)
                    \in {"categorical", "nominal", "unboundedcategorical"}
               THEN /\ \E i \in DOMAIN sample : sample[i] = pred
                    /\ \A i \in DOMAIN sample :
                            Drawn(sample, sample[i]) <= Drawn(sample, pred)
                    /\ conf = <<Drawn(sample, pred), n>>
               ELSE /\ pred = <<sum(sample), n>>
                    /\ conf[1] = 0

\* Two draws of the categorical column, both "x": the answer is "x" with
\* confidence 2/2.
C18_witness ==
    /\ last.op = "predict_confidence"
    /\ last.out = "value"
    /\ last.value[1].colno = 1
    /\ last.value[2].sample = <<"x", "x">>
    /\ last.value[2].result = <<"x", <<2, 2>>>>

\* C19: predict_confidence simulates 2 draws when numsamples is not given,
\* and a call whose numsamples is zero or negative is rejected without a
\* simulation.
C19_counterexample ==
    last.op = "predict_confidence" =>
        LET numsamples == last.value[1].numsamples
        IN  /\ (numsamples = <<>> /\ last.out = "value") =>
                    last.value[2].request[2] = 2
            /\ (numsamples # <<>> /\ numsamples[1] <= 0) =>
                    /\ last.out = "AssertionError"
                    /\ last.handle = NoHandle

\* The value a list of (colno, value) pairs gives a column, converted, and
\* unset when the list does not name the column.
ValueOf(d, generator_id, seq, colno) ==
    IF \E i \in DOMAIN seq : seq[i][1] = colno
    THEN _convert_to_proper_stattype(d, generator_id, colno,
            seq[CHOOSE i \in DOMAIN seq : seq[i][1] = colno][2])
    ELSE <<"None">>

\* C20: logpdf_joint scores two vectors that have one slot per column of the
\* generator, the slot of a column at its engine rank: the and vector holds
\* the converted value of every target and of every constraint and is unset
\* elsewhere, the conditional vector holds the constraints' values and is
\* unset elsewhere; the call returns the difference of the two scores.
C20_theorem ==
    (last.op = "logpdf_joint" /\ last.out = "value") =>
        LET d == db[last.bdb]
            args == last.value[1]
            and_case == last.value[2][1]
            conditional_case == last.value[2][2]
            slot(colno) == cursor_value(_get_loom_rank(d, last.gen, colno)) + 1
            constrained(colno) ==
                \E i \in DOMAIN args.constraints :
                    args.constraints[i][1] = colno
        IN  /\ DOMAIN and_case = 1..Cardinality(Colnos)
            /\ DOMAIN conditional_case = 1..Cardinality(Colnos)
            /\ \A colno \in Colnos :
                /\ slot(colno) \in DOMAIN and_case
                /\ and_case[slot(colno)] =
                        IF constrained(colno)
                        THEN ValueOf(d, last.gen, args.constraints, colno)
                        ELSE ValueOf(d, last.gen, args.targets, colno)
                /\ conditional_case[slot(colno)] =
                        ValueOf(d, last.gen, args.constraints, colno)
            /\ last.handle = _get_cache_entry(cache, last.bdb, last.gen,
                                "q_server")

\* A target on column 0, whose rank is 1, and a constraint on column 1, whose
\* rank is 0: the and vector holds both, the conditional vector the second.
C20_witness ==
    /\ last.op = "logpdf_joint"
    /\ last.out = "value"
    /\ last.value[1].targets = <<<<0, "5.0">>>>
    /\ last.value[1].constraints = <<<<1, "y">>>>
    /\ last.value[2][1] = <<<<"int", 1>>, <<"float", "5.0">>>>
    /\ last.value[2][2] = <<<<"int", 1>>, <<"None">>>>

\* The stored codes of a string of a column.
CodesOf(d, generator_id, colno, string_form) ==
    {r.integer_form : r \in {x \in RowsOf(d, "string_encoding", generator_id) :
        x.colno = colno /\ x.string_form = string_form}}

\* C21: logpdf_joint replaces a non-null value of a text-affinity column by
\* the integer code stored for (generator, column, string); a string without
\* a stored code ends the call with the lookup error and is neither defaulted
\* nor passed through; a null value stays unset.
C21_theorem ==
    last.op = "logpdf_joint" =>
        LET d == db[last.bdb]
            args == last.value[1]
            pairs == args.targets \o args.constraints
            text == {i \in DOMAIN pairs :
                bayesdb_variable_stattype(pairs[i][1]) = "categorical"}
            coded(p) ==
                IF p[2] = NULL THEN <<"None">>
                ELSE <<"int", CHOOSE c \in CodesOf(d, last.gen, p[1], p[2]) :
                                TRUE>>
            slot(colno) == cursor_value(_get_loom_rank(d, last.gen, colno)) + 1
            constrained(colno) ==
                \E i \in DOMAIN args.constraints :
                    args.constraints[i][1] = colno
        IN  /\ (\E i \in text : /\ pairs[i][2] # NULL
                                /\ CodesOf(d, last.gen, pairs[i][1],
                                        pairs[i][2]) = {}) =>
                    (last.out = "LookupError" /\ last.value[2] = <<>>)
            /\ last.out = "value" =>
                /\ \A i \in DOMAIN args.constraints :
                    LET p == args.constraints[i]
                    IN  bayesdb_variable_stattype(p[1]) = "categorical" =>
                            /\ last.value[2][1][slot(p[1])] = coded(p)
                            /\ last.value[2][2][slot(p[1])] = coded(p)
                /\ \A i \in DOMAIN args.targets :
                    LET p == args.targets[i]
                    IN  (bayesdb_variable_stattype(p[1]) = "categorical"
                            /\ ~constrained(p[1])) =>
                            last.value[2][1][slot(p[1])] = coded(p)

\* A target whose string has no stored code, asked of a generator that has
\* codes for the column and a cached server: the call ends with the lookup
\* error.
C21_witness ==
    /\ last.op = "logpdf_joint"
    /\ last.value[1].targets = <<<<1, "z">>>>
    /\ last.value[1].constraints = <<>>
    /\ last.out = "LookupError"
    /\ CodesOf(db[last.bdb], last.gen, 1, "y") = {1}
    /\ _get_cache_entry(cache, last.bdb, last.gen, "q_server") # NoHandle

\* C22: from the end of create_generator on, the column_ordering rows of the
\* generator are a bijection between the column numbers of the population's
\* variables and the ranks 0..N-1, N being the number of variables: one rank
\* per variable, no rank shared, the ranks contiguous from 0.
C22_theorem ==
    \A k \in GenKeys :
        host[k] = "live" =>
            LET rows == RowsOf(db[k[1]], "column_ordering", k[2])
                N == Len(bayesdb_variable_numbers)
            IN  /\ \A colno \in Colnos :
                    Cardinality({r \in rows : r.colno = colno}) = 1
                /\ \A rank \in 0..(N - 1) :
                    Cardinality({r \in rows : r.rank = rank}) = 1
                /\ \A r \in rows : r.colno \in Colnos /\ r.rank \in 0..(N - 1)

\* create_generator has ended for a generator whose engine order differs from
\* the host's: column 0 has rank 1.
C22_witness ==
    /\ last.op = "create_generator"
    /\ last.out = "ok"
    /\ host[<<last.bdb, last.gen>>] = "live"
    /\ \E r \in RowsOf(db[last.bdb], "column_ordering", last.gen) :
            r.colno = 0 /\ r.rank = 1

\* The strings stored with a code of a column (the decoding of the code).
StringsOf(d, generator_id, colno, integer_form) ==
    {r.string_form : r \in {x \in RowsOf(d, "string_encoding", generator_id) :
        x.colno = colno /\ x.integer_form = integer_form}}

\* C23: for every generator and column the stored encoding is one-to-one:
\* every stored string has one code, every stored code one string, and the
\* string stored with the code that _get_integer_form gives a stored string is
\* that string.
C23_theorem ==
    \A k \in GenKeys :
        LET d == db[k[1]]
            rows == RowsOf(d, "string_encoding", k[2])
        IN  \A r \in rows :
                /\ _get_integer_form(d, k[2], r.colno, r.string_form)
                        = {r.integer_form}
                /\ StringsOf(d, k[2], r.colno, r.integer_form)
                        = {r.string_form}
                /\ StringsOf(d, k[2], r.colno,
                        cursor_value(_get_integer_form(d, k[2], r.colno,
                            r.string_form))) = {r.string_form}

\* A created generator whose categorical column has two strings stored, with
\* two codes.
C23_witness ==
    /\ host[Primary] = "live"
    /\ CodesOf(db[Primary[1]], Primary[2], 1, "x") = {0}
    /\ CodesOf(db[Primary[1]], Primary[2], 1, "y") = {1}
    /\ Cardinality(RowsOf(db[Primary[1]], "string_encoding", Primary[2])) = 2

\* The encoding and the column order stored for a generator.
EncodingOf(d, generator_id) ==
    [string_encoding |-> RowsOf(d, "string_encoding", generator_id),
     column_ordering |-> RowsOf(d, "column_ordering", generator_id)]

\* C24: the string_encoding and column_ordering rows of a generator are
\* written once: no step taken while the generator is created and not
\* dropped (initialize_models, analyze_models, drop_models,
\* populate_cgpm_engine, a query, or an operation on another generator)
\* inserts, changes or deletes any of them.
C24_theorem ==
    [][\A k \in GenKeys :
        (host[k] = "live" /\ host'[k] = "live") =>
            EncodingOf(db'[k[1]], k[2]) = EncodingOf(db[k[1]], k[2])]_vars

\* A generator trained for the second time, with an explicit list of model
\* numbers, whose encoding and column order are stored.
C24_witness ==
    /\ last.op = "analyze_models"
    /\ last.out = "ok"
    /\ last.modelnos # None
    /\ runs = MaxRuns
    /\ host[<<last.bdb, last.gen>>] = "live"
    /\ EncodingOf(db[last.bdb], last.gen).string_encoding # {}
    /\ Cardinality(EncodingOf(db[last.bdb], last.gen).column_ordering)
            = Cardinality(Colnos)

\* C25: initialize_models(g, modelnos) replaces the model count: after it
\* there is exactly one model_info row of g, with num_models = len(modelnos),
\* whatever was stored before; the model_info rows of every other generator,
\* of the same and of the other database, are as before.
C25_theorem ==
    [][last'.op = "initialize_models" =>
        /\ RowsOf(db'[last'.bdb], "model_info", last'.gen)
                = {[generator_id |-> last'.gen,
                    num_models |-> Len(last'.modelnos)]}
        /\ \A k \in GenKeys :
                k # <<last'.bdb, last'.gen>> =>
                    RowsOf(db'[k[1]], "model_info", k[2])
                        = RowsOf(db[k[1]], "model_info", k[2])]_vars

\* initialize_models run with one model number for a generator that holds
\* the partitions of two models, and beside a generator that has a count of
\* its own.
C25_witness ==
    /\ last.op = "initialize_models"
    /\ Len(last.modelnos) = 1
    /\ TrainedModelnos(db[last.bdb], last.gen) = {0, 1}
    /\ \E k \in GenKeys :
            /\ k # <<last.bdb, last.gen>>
            /\ RowsOf(db[k[1]], "model_info", k[2]) # {}

\* The kinds of model m in the partition rows of the generator.
KindsOf(d, generator_id, m) ==
    {r.kind_id : r \in StoredOf(d, generator_id, m).ckp}
        \cup {r.kind_id : r \in StoredOf(d, generator_id, m).rkp}

\* C26: for every model that has partition rows of a generator and every
\* kind of the model, the row ids that have a row_kind_partition row of the
\* kind are the row ids of the host table, and each of them has exactly one
\* partition id in the kind.
C26_counterexample ==
    \A k \in GenKeys :
        LET d == db[k[1]]
        IN  \A m \in TrainedModelnos(d, k[2]) :
                \A kind_id \in KindsOf(d, k[2], m) :
                    LET rows == {r \in StoredOf(d, k[2], m).rkp :
                                    r.kind_id = kind_id}
                    IN  /\ {r.rowid : r \in rows} = Rowids
                        /\ \A rowid \in Rowids :
                            Cardinality({r.partition_id :
                                r \in {x \in rows : x.rowid = rowid}}) = 1

\* C27: the names, and with them the project paths, that create_generator
\* gives to two generators of one store are different, whether the two are
\* of one database or of two.
C27_counterexample ==
    \A k1 \in GenKeys : \A k2 \in GenKeys :
        \A r1 \in RowsOf(db[k1[1]], "generator", k1[2]) :
            \A r2 \in RowsOf(db[k2[1]], "generator", k2[2]) :
                k1 # k2 =>
                    /\ r1.name # r2.name
                    /\ r1.project_path # r2.project_path

\* The kind id stored for a column of model m.
StoredKind(d, generator_id, m, colno) ==
    CHOOSE kind_id \in {r.kind_id : r \in {x \in StoredOf(d, generator_id, m).ckp :
                            x.colno = colno}} : TRUE

\* The partition ids stored for the rows in a kind of model m, by row id.
StoredZr(d, generator_id, m, kind_id) ==
    [rowid \in Rowids |->
        CHOOSE p \in {r.partition_id : r \in {x \in StoredOf(d, generator_id, m).rkp :
                        x.kind_id = kind_id /\ x.rowid = rowid}} : TRUE]

\* C28: after _update_state(state, modelno) the member has one new view per
\* kind of the model, their ids counted from the member's greatest view id
\* before the call plus one, so that none is the id of a view the member had;
\* every column is in the new view whose id is the kind id of the column plus
\* that starting id; and every column is in exactly one view, which the
\* member has.
C28_theorem ==
    \A i \in DOMAIN engine.results :
        LET d == db[Primary[1]]
            old == engine.args[i].state
            new == engine.results[i]
            m == engine.args[i].modelno
            starting_id == max(DOMAIN old.views) + 1
            created == (DOMAIN new.views) \ (DOMAIN old.views)
        IN  /\ created = {starting_id + kind_id :
                            kind_id \in KindsOf(d, Primary[2], m)}
            /\ \A v \in created : \A u \in DOMAIN old.views : u < v
            /\ DOMAIN new.views \subseteq (DOMAIN old.views) \cup created
            /\ \A v \in (DOMAIN new.views) \ created :
                    new.views[v] = old.views[v]
            /\ DOMAIN new.Zv = Colnos
            /\ \A c \in Colnos :
                /\ new.Zv[c] = StoredKind(d, Primary[2], m, c) + starting_id
                /\ new.Zv[c] \in DOMAIN new.views

\* A member whose greatest view id was 2 has taken a model of two kinds: its
\* new views are 3 and 4.
C28_witness ==
    \E i \in DOMAIN engine.results :
        /\ max(DOMAIN engine.args[i].state.views) = 2
        /\ Cardinality(KindsOf(db[Primary[1]], Primary[2],
                engine.args[i].modelno)) = 2
        /\ {3, 4} \subseteq DOMAIN engine.results[i].views
        /\ engine.results[i].Zv # engine.args[i].state.Zv

\* C29: in populate_cgpm_engine the work unit of member i has the model
\* number i and changes member i alone; in whatever order the units run,
\* engine.states[i] is in the end member i with the column and row partition
\* of model i, and no step of the call writes the tables, the store or the
\* server cache.
C29_theorem ==
    [][/\ db' = db /\ cache' = cache /\ disk' = disk
       /\ \A i \in DOMAIN engine'.args : engine'.args[i].modelno = i - 1
       /\ (engine.pc = "running" /\ engine'.pc = "running") =>
            \E i \in engine.pending :
                /\ engine'.pending = engine.pending \ {i}
                /\ \A j \in DOMAIN engine.states :
                        j # i => engine'.states[j] = engine.states[j]
                /\ \A j \in DOMAIN engine.results :
                        engine'.results[j] = engine.results[j]
       /\ engine'.pc = "done" =>
            /\ DOMAIN engine'.states = DOMAIN engine'.args
            /\ \A i \in DOMAIN engine'.states :
                LET d == db'[Primary[1]]
                    old == engine'.args[i].state
                    new == engine'.states[i]
                    starting_id == max(DOMAIN old.views) + 1
                IN  /\ \A c \in Colnos :
                        new.Zv[c] = StoredKind(d, Primary[2], i - 1, c)
                                        + starting_id
                    /\ \A kind_id \in KindsOf(d, Primary[2], i - 1) :
                        new.views[starting_id + kind_id]
                            = StoredZr(d, Primary[2], i - 1, kind_id)]_vars

\* The call has ended after the work units ran out of the order of the
\* members, on members and models that differ from one another.
C29_witness ==
    /\ engine.pc = "done"
    /\ ~engine.serial
    /\ engine.args[1].state # engine.args[2].state
    /\ engine.states[1].Zv[0] = engine.states[1].Zv[1]
    /\ engine.states[2].Zv[0] # engine.states[2].Zv[1]
    /\ last.op = "populate_cgpm_engine"
    /\ last.out = "value"

C31_counterexample ==
    [][/\ Len(process'.contexts) > Len(process.contexts) =>
            LET self == process'.contexts[Len(process'.contexts)]
            IN  /\ process'.LOOM_STORE = self.loom_store_path
                /\ process'.STORE = self.loom_store_path
       /\ Len(process'.contexts) < Len(process.contexts) =>
            process'.LOOM_STORE =
                process.contexts[Len(process.contexts)].entered]_vars

\* C32: in dense mode _reorder_row returns one entry per column of the
\* generator, in ascending engine rank, each holding the input row's value
\* for that host column and unset (None) when the row has no value for it.
\* Read at row_similarity, whose result is the reordered target row and the
\* reordered row.  Not so: the entry of a column without a value is
\* str(None), the text 'None'.
C32_counterexample ==
    (last.op = "row_similarity" /\ last.out = "value") =>
        \A k \in 1..2 :
            LET reordered == last.value[2][k]
                rowid == IF k = 1 THEN last.value[1].target_rowid
                         ELSE last.value[1].rowid
                d == db[last.bdb]
                rows == {x \in d.column_ordering : x.generator_id = last.gen}
            IN  /\ Len(reordered) = Cardinality(rows)
                /\ \A i \in DOMAIN reordered :
                    /\ \E x \in rows : /\ x.colno = reordered[i][1]
                                        /\ x.rank = i - 1
                    /\ reordered[i][2] =
                        bayesdb_generator_row_values(rowid)[reordered[i][1]]

\* The model numbers whose artifact the extraction of the last call opened:
\* all of them when the call returned, those up to the one it raised at
\* otherwise.
Opened ==
    {last.modelnos[i] : i \in {j \in DOMAIN last.modelnos :
        \/ last.out = "ok"
        \/ last.at # NoFault /\ last.modelnos[j] <= last.at}}

\* C33: analyze_models with explicit modelnos extracts the partition of each
\* m from an artifact the inference run of that same call wrote for m: the
\* extraction opens no artifact the run did not produce, the run writing
\* sample.0 .. sample.(count-1) for the count it was asked.  Not so: the run
\* is asked len(modelnos) samples and the extraction opens sample.m for the
\* m of modelnos.
C33_counterexample ==
    (last.op = "analyze_models" /\ last.modelnos # None) =>
        \A m \in Opened : m \in 0..(Len(last.modelnos) - 1)

\* C34: after a successful analyze_models, for every model m that has
\* partition rows of the generator, every kind id of the column partition of
\* m has a row partition row of m for every row id, so that the lookups of
\* predictive_relevance find their rows.
C34_counterexample ==
    (last.op = "analyze_models" /\ last.out = "ok") =>
        LET d == db[last.bdb]
        IN  \A m \in TrainedModelnos(d, last.gen) :
                \A c \in StoredOf(d, last.gen, m).ckp :
                    \A rowid \in Rowids :
                        ~EmptyCursor(_get_partition_id(d, last.gen, m,
                            c.kind_id, rowid))

\* C35: when callers of _retrieve_server miss at once on one (connection,
\* generator), or a miss interleaves with drop_models or drop_generator,
\* then under every interleaving each caller that returns normally gets a
\* handle, not None, built from the project path of the generator; when all
\* calls are over the cache holds no handle or such a handle; and the steps
\* of the rebuilding change nothing but the cache.  Not so: a drop can
\* delete the entry between the caller's _load_inferences and its second
\* _get_cache_entry, and the caller returns None.
C35_counterexample ==
    [][/\ \A t \in Callers :
            threads'[t].pc = "returned" =>
                /\ threads'[t].server # NoHandle
                /\ threads'[t].server.path = PrimaryPath
       /\ (\A t \in DOMAIN threads' :
                threads'[t].pc \in {"returned", "raised"}) =>
            \A key \in {"q_server", "preql_server"} :
                LET entry == _get_cache_entry(cache', Primary[1], Primary[2],
                                key)
                IN  entry # NoHandle => entry.path = PrimaryPath
       /\ (\E t \in Callers : threads'[t] # threads[t]) =>
            UNCHANGED <<db, disk, runs>>]_vars

====
